---- MODULE Spec2Model ----
(***************************************************************************)
(* A model of the uv-threadpool-benchmark orchestrator                      *)
(* (run-all-benchmarks.js), of the workload suites it spawns                *)
(* (benchmarks/*.js) and of the comparative analyzer (compare-results.js).  *)
(*                                                                         *)
(* JavaScript values are modelled as follows.                               *)
(*   - an object is the sequence of its own properties [key, val] in the    *)
(*     order in which Object.keys / JSON.stringify enumerate them;          *)
(*   - null and undefined are the records Null and Undefined;               *)
(*   - a requested pool size is Auto or Explicit(n);                             *)
(*   - the text a process writes to its standard output is a sequence of    *)
(*     tokens: log lines, a marker line (with the bytes of the line) and    *)
(*     the JSON text of a value.                                            *)
(***************************************************************************)
EXTENDS Integers, Sequences, FiniteSets, TLC

VARIABLES
  argvBenchmarks,  \* config.benchmarks: the requested suite identifiers
  argvSizes,       \* config.sizes: the requested pool sizes
  procEnv,         \* process.env of the orchestrator
  startEnv,        \* process.env of the orchestrator when main() started
  pc,              \* where main() of the orchestrator is
  bi,              \* index of benchName in config.benchmarks
  si,              \* index of size in config.sizes
  allResults,      \* allResults.benchmarks
  children,        \* the trial processes that exist
  files,           \* the files of config.outputDir
  faults,          \* how many trials or writes went wrong so far
  trialLog,        \* what each trial process did, in spawn order
  loaded,          \* compare-results.js: allResults.benchmarks as loaded
  baseline,        \* compare-results.js: config.baseline
  cpc,             \* compare-results.js: where main() is
  ci,              \* compare-results.js: index of the suite being printed
  tables,          \* compare-results.js: what printComparisonTable printed
  summaries,       \* compare-results.js: the summaries of printSummaryTable
  upc,             \* lib/utils.js: where runBenchmark or calculateStats is
  warmupIterations,\* lib/utils.js: options.warmupIterations of runBenchmark
  iterations,      \* lib/utils.js: options.iterations of runBenchmark
  ui,              \* lib/utils.js: the loop variable i of runBenchmark
  times,           \* lib/utils.js: the array of duration samples
  stats,           \* lib/utils.js: what calculateStats returned
  fnLog,           \* lib/utils.js: the calls of fn and the memory readings, in order
  benchResult,     \* lib/utils.js: what runBenchmark returned
  parallelism,     \* os.availableParallelism()
  autoSizes        \* the auto pool size each place of the program derived

sweepVars == <<argvBenchmarks, argvSizes, procEnv, startEnv, pc, bi, si,
               allResults, children, files, faults, trialLog>>
compareVars == <<loaded, baseline, cpc, ci, tables, summaries>>
utilsVars == <<upc, warmupIterations, iterations, ui, times, stats, fnLog,
               benchResult, parallelism, autoSizes>>
vars == <<sweepVars, compareVars, utilsVars>>

----------------------------------------------------------------------------
(* Bounds of the model *)

\* the longest --sizes list
MaxSizes == 2
\* the most (identifier, size) pairs of one sweep
MaxPairings == 4
\* how many trial processes or artifact writes may go wrong in one sweep
MaxFaults == 1
\* the longest results list of a record of a loaded result file
MaxResults == 1

----------------------------------------------------------------------------
(* JavaScript values *)

Null == [isNull |-> TRUE]
Undefined == [isUndefined |-> TRUE]
Truthy(v) == v # Null /\ v # Undefined
HasField(v, f) == f \in DOMAIN v

Auto == [kind |-> "auto", n |-> 0]
Explicit(n) == [kind |-> "int", n |-> n]

\* String(size), also the coercion of a size used as a property key
StringOfSize(size) == IF size.kind = "auto" THEN "auto" ELSE ToString(size.n)

\* the integers whose decimal strings occur as property keys
KeyInts == {4, 8, 16}
\* a canonical array index: such keys are enumerated first, in ascending order
IsIndexKey(k) == \E n \in KeyInts : ToString(n) = k
IndexOfKey(k) == CHOOSE n \in KeyInts : ToString(n) = k

ObjKeys(obj) == [i \in 1..Len(obj) |-> obj[i].key]
ObjHas(obj, k) == \E i \in 1..Len(obj) : obj[i].key = k
ObjGet(obj, k) ==
  IF ObjHas(obj, k)
  THEN obj[CHOOSE i \in 1..Len(obj) : obj[i].key = k].val
  ELSE Undefined

\* where a new own property k is placed in the enumeration order of obj
InsertPos(obj, k) ==
  IF IsIndexKey(k)
  THEN 1 + Cardinality({i \in 1..Len(obj) :
                          /\ IsIndexKey(obj[i].key)
                          /\ IndexOfKey(obj[i].key) < IndexOfKey(k)})
  ELSE Len(obj) + 1

\* obj[k] = v
ObjSet(obj, k, v) ==
  IF ObjHas(obj, k)
  THEN LET p == CHOOSE i \in 1..Len(obj) : obj[i].key = k
       IN SubSeq(obj, 1, p - 1) \o <<[key |-> k, val |-> v]>>
            \o SubSeq(obj, p + 1, Len(obj))
  ELSE LET p == InsertPos(obj, k)
       IN SubSeq(obj, 1, p - 1) \o <<[key |-> k, val |-> v]>>
            \o SubSeq(obj, p, Len(obj))

----------------------------------------------------------------------------
(* The suites: benchmarks/*.js *)

\* BENCHMARKS: the known suite identifiers
BENCHMARKS == {"fs", "crypto", "dns", "zlib", "mixed", "memory"}

\* a requested identifier that is no key of BENCHMARKS
UnknownBenchmark == "nope"

\* a requested identifier that is no key of BENCHMARKS and the name of a
\* property that BENCHMARKS, an object literal, inherits from Object.prototype
InheritedName == "constructor"

\* BENCHMARKS[name]: the path of a known suite, the inherited property, or
\* undefined
BenchPath(name) ==
  IF name \in BENCHMARKS THEN [path |-> name]
  ELSE IF name = InheritedName THEN [function |-> "Object"]
  ELSE Undefined

\* the bytes of the marker line: U+1F4C4 in UTF-8, and the same character
\* decoded as windows-1252 and encoded to UTF-8 again
MarkerPageEmoji == "F0 9F 93 84 JSON Output:"
MarkerDoubleEncoded == "C3 B0 C5 B8 E2 80 9C E2 80 9E JSON Output:"

\* the marker line a suite prints before its payload
SuiteMarker(bench) ==
  IF bench \in {"zlib", "memory"} THEN MarkerPageEmoji ELSE MarkerDoubleEncoded

\* the `benchmark` field of a suite's payload
SuiteTitle(bench) ==
  CASE bench = "fs" -> "fs-operations"
    [] bench = "crypto" -> "crypto-operations"
    [] bench = "dns" -> "dns-operations"
    [] bench = "zlib" -> "zlib-operations"
    [] bench = "mixed" -> "mixed-workload"
    [] OTHER -> "memory-usage"

\* how many trials (runBenchmark calls of lib/utils.js) main() of a suite makes
NumTrials(bench) ==
  CASE bench = "fs" -> 18
    [] bench = "crypto" -> 19
    [] bench = "dns" -> 18
    [] bench = "zlib" -> 28
    [] bench = "mixed" -> 21
    [] OTHER -> 0

\* the name of the i-th trial of a suite
TrialName(bench, i) == <<bench, i>>

\* process.env.UV_THREADPOOL_SIZE || 'auto'
ThreadpoolSizeOf(env) ==
  IF \E p \in env : p[1] = "UV_THREADPOOL_SIZE" /\ p[2] # ""
  THEN (CHOOSE p \in env : p[1] = "UV_THREADPOOL_SIZE")[2]
  ELSE "auto"

\* the mean duration a trial measures: the model fixes it by the pool size
MeanOf(bench, i, env) == IF ThreadpoolSizeOf(env) = "auto" THEN 80 ELSE 100

\* a memory suite whose payload has a results list, like the other suites
SuitePayloadWithResults(bench, env) ==
  [benchmark |-> SuiteTitle(bench),
   threadpoolSize |-> ThreadpoolSizeOf(env),
   results |-> [i \in 1..(IF bench = "memory" THEN 1 ELSE NumTrials(bench)) |->
                  [name |-> TrialName(bench, i),
                   mean |-> MeanOf(bench, i, env)]]]

\* the payload object a suite builds after its last trial
SuitePayload(bench, env) ==
  IF bench = "memory"
  THEN [benchmark |-> SuiteTitle(bench), baseline |-> <<>>, underLoad |-> <<>>]
  ELSE [benchmark |-> SuiteTitle(bench),
        threadpoolSize |-> ThreadpoolSizeOf(env),
        results |-> [i \in 1..NumTrials(bench) |->
                       [name |-> TrialName(bench, i),
                        mean |-> MeanOf(bench, i, env)]]]

LogLine == [t |-> "log"]
MarkerLine(bytes) == [t |-> "marker", bytes |-> bytes]
JsonText(v) == [t |-> "json", value |-> v]

\* JSON texts: null, a string, a number in decimal digits, an array of
\* texts, an object of members (key and text) in the order they are written
TextNull == [t |-> "null"]
TextOfString(str) == [t |-> "string", chars |-> str]

RECURSIVE DigitsOf(_)
DigitsOf(n) == IF n < 10 THEN <<n>> ELSE Append(DigitsOf(n \div 10), n % 10)
RECURSIVE NumberOfDigits(_)
NumberOfDigits(ds) ==
  IF Len(ds) = 0 THEN 0
  ELSE NumberOfDigits(SubSeq(ds, 1, Len(ds) - 1)) * 10 + ds[Len(ds)]

\* a number text that loses the last digit
TextOfNumberCoarse(n) ==
  [t |-> "number", digits |-> SubSeq(DigitsOf(n), 1, Len(DigitsOf(n)) - 1)]

TextOfNumber(n) == [t |-> "number", digits |-> DigitsOf(n)]
TextOfArray(items) == [t |-> "array", items |-> items]
TextOfObject(members) == [t |-> "object", members |-> members]
TextMember(k, text) == [key |-> k, text |-> text]

\* JSON.stringify of one element of a results list
TextOfEntry(e) ==
  TextOfObject(<<TextMember("name", TextOfString(e.name)),
                 TextMember("mean", TextOfNumber(e.mean))>>)

\* JSON.stringify of a record: null, an error record, the payload of a
\* workload suite or the payload of the memory suite
TextOfRecord(r) ==
  IF r = Null THEN TextNull
  ELSE IF HasField(r, "error")
  THEN TextOfObject(<<TextMember("error", TextOfString(r.error))>>)
  ELSE IF HasField(r, "results")
  THEN TextOfObject(
         <<TextMember("benchmark", TextOfString(r.benchmark)),
           TextMember("threadpoolSize", TextOfString(r.threadpoolSize)),
           TextMember("results",
                      TextOfArray([i \in 1..Len(r.results) |->
                                     TextOfEntry(r.results[i])]))>>)
  ELSE TextOfObject(<<TextMember("benchmark", TextOfString(r.benchmark)),
                      TextMember("baseline", TextOfArray(<<>>)),
                      TextMember("underLoad", TextOfArray(<<>>))>>)

\* JSON.stringify of the records of a suite: the own properties in
\* enumeration order, those whose value is undefined left out
TextOfSizes(obj) ==
  LET kept == SelectSeq(obj, LAMBDA m : m.val # Undefined)
  IN TextOfObject([i \in 1..Len(kept) |->
                     TextMember(kept[i].key, TextOfRecord(kept[i].val))])

\* JSON.stringify of allResults.benchmarks
TextOfBenchmarks(all) ==
  TextOfObject([i \in 1..Len(all) |->
                  TextMember(all[i].key, TextOfSizes(all[i].val))])

\* the member of an object text: JSON.parse keeps the last one of a key
HasMember(text, k) == \E i \in 1..Len(text.members) : text.members[i].key = k
MemberText(text, k) ==
  LET hits == {i \in 1..Len(text.members) : text.members[i].key = k}
  IN text.members[CHOOSE i \in hits : \A j \in hits : j <= i].text

\* JSON.parse of the texts above
ParseEntry(text) ==
  [name |-> MemberText(text, "name").chars,
   mean |-> NumberOfDigits(MemberText(text, "mean").digits)]

ParseRecord(text) ==
  IF text.t = "null" THEN Null
  ELSE IF HasMember(text, "error")
  THEN [error |-> MemberText(text, "error").chars]
  ELSE IF HasMember(text, "results")
  THEN [benchmark |-> MemberText(text, "benchmark").chars,
        threadpoolSize |-> MemberText(text, "threadpoolSize").chars,
        results |-> [i \in 1..Len(MemberText(text, "results").items) |->
                       ParseEntry(MemberText(text, "results").items[i])]]
  ELSE [benchmark |-> MemberText(text, "benchmark").chars,
        baseline |-> <<>>, underLoad |-> <<>>]

RECURSIVE ParseSizesFrom(_, _, _)
ParseSizesFrom(members, i, obj) ==
  IF i > Len(members) THEN obj
  ELSE ParseSizesFrom(members, i + 1,
                      ObjSet(obj, members[i].key, ParseRecord(members[i].text)))
ParseSizes(text) == ParseSizesFrom(text.members, 1, <<>>)

RECURSIVE ParseBenchmarksFrom(_, _, _)
ParseBenchmarksFrom(members, i, obj) ==
  IF i > Len(members) THEN obj
  ELSE ParseBenchmarksFrom(members, i + 1,
                           ObjSet(obj, members[i].key, ParseSizes(members[i].text)))
ParseBenchmarks(text) == ParseBenchmarksFrom(text.members, 1, <<>>)

\* what main() of a suite writes to its standard output when the operation
\* of trial raiseAt raises (0: no trial raises): one log line per trial
\* started, and after the last trial the marker line and the payload
SuiteMain(bench, env, raiseAt) ==
  IF raiseAt = 0
  THEN [i \in 1..NumTrials(bench) |-> LogLine]
         \o <<MarkerLine(SuiteMarker(bench)), JsonText(TextOfRecord(SuitePayload(bench, env)))>>
  ELSE [i \in 1..raiseAt |-> LogLine]

\* the suites whose main() makes the temporary directory in setup() and
\* removes it in cleanup()
UsesTempDir(bench) == bench \in {"fs", "mixed"}

Step(t) == [t |-> t]

\* a main() that calls cleanup() at the end of its try block
SuiteStepsCleanupInTry(bench, raiseAt) ==
  IF raiseAt = 0
  THEN (IF UsesTempDir(bench) THEN <<Step("setup")>> ELSE <<>>)
         \o [i \in 1..NumTrials(bench) |-> Step("trial")]
         \o <<Step("payload")>>
         \o (IF UsesTempDir(bench) THEN <<Step("cleanup")>> ELSE <<>>)
         \o <<Step("exit")>>
  ELSE (IF UsesTempDir(bench) THEN <<Step("setup")>> ELSE <<>>)
         \o [i \in 1..raiseAt |-> Step("trial")]
         \o <<Step("raise"), Step("console.error"), Step("exit")>>

\* the steps of main() of a suite when the operation of trial raiseAt raises
\* (0: no trial raises): the trials are awaited one after the other, a raise
\* leaves the loop, the finally block of the fs and mixed suites awaits
\* cleanup(), main().catch(console.error) prints the error of a rejected
\* main(), and the process ends with code 0
SuiteSteps(bench, raiseAt) ==
  LET setup == IF UsesTempDir(bench) THEN <<Step("setup")>> ELSE <<>>
      finally == IF UsesTempDir(bench) THEN <<Step("cleanup")>> ELSE <<>>
  IN IF raiseAt = 0
     THEN setup \o [i \in 1..NumTrials(bench) |-> Step("trial")]
            \o <<Step("payload")>> \o finally \o <<Step("exit")>>
     ELSE setup \o [i \in 1..raiseAt |-> Step("trial")]
            \o <<Step("raise")>> \o finally
            \o <<Step("console.error"), Step("exit")>>

----------------------------------------------------------------------------
(* The orchestrator: run-all-benchmarks.js *)

\* a runBenchmark that edits process.env itself instead of a copy of it
RunBenchmarkEnvShared(penv, sz) ==
  LET env == IF sz.kind = "auto"
             THEN {p \in penv : p[1] # "UV_THREADPOOL_SIZE"}
             ELSE {p \in penv : p[1] # "UV_THREADPOOL_SIZE"}
                    \cup {<<"UV_THREADPOOL_SIZE", StringOfSize(sz)>>}
  IN [child |-> env, parent |-> env]

\* the environment runBenchmark builds for the trial process, and process.env
\* after it was built
RunBenchmarkEnv(penv, sz) ==
  LET env == penv  \* { ...process.env }: a copy
  IN [child |-> IF sz.kind = "auto"
                THEN {p \in env : p[1] # "UV_THREADPOOL_SIZE"}
                ELSE {p \in env : p[1] # "UV_THREADPOOL_SIZE"}
                       \cup {<<"UV_THREADPOOL_SIZE", StringOfSize(sz)>>},
      parent |-> penv]

\* the environment measureMemory of the memory suite builds for the process
\* it spawns, and process.env of the suite after it was built
MeasureMemoryEnv(penv, threadpoolSize) ==
  LET env == penv  \* { ...process.env }: a copy
  IN [child |-> IF threadpoolSize.kind = "auto"
                THEN {p \in env : p[1] # "UV_THREADPOOL_SIZE"}
                ELSE {p \in env : p[1] # "UV_THREADPOOL_SIZE"}
                       \cup {<<"UV_THREADPOOL_SIZE",
                               StringOfSize(threadpoolSize)>>},
      parent |-> penv]

\* stdout.match(/<marker>\n([\s\S]+)$/)[1]: the text after the first marker
\* line that something follows; the empty text when nothing matches
MatchMarker(stdout) ==
  LET hits == {i \in 1..(Len(stdout) - 1) :
                 stdout[i] = MarkerLine(MarkerPageEmoji)}
  IN IF hits = {} THEN <<>>
     ELSE LET i == CHOOSE j \in hits : \A k \in hits : j <= k
          IN SubSeq(stdout, i + 1, Len(stdout))

\* JSON.parse(text.trim()) succeeds when the text is the JSON text of one value
CanParse(text) == Len(text) = 1 /\ text[1].t = "json"

\* result.json of the close handler for exit code 0
ExtractJson(stdout) ==
  LET m == MatchMarker(stdout)
  IN IF Len(m) = 0 THEN Null
     ELSE IF CanParse(m) THEN ParseRecord(m[1].value) ELSE Null

\* `${benchName}-size-${size}.json`
ArtifactName(bench, size) == <<bench, "-size-", StringOfSize(size), ".json">>
CombinedName == <<"all-results", "", "", ".json">>

\* JSON.stringify(value, null, 2) as written to a file
JSONStringify(v) == JsonText(TextOfRecord(v))
\* JSON.stringify(allResults, null, 2) as written to the combined artifact
StringifyAllResults(all) == JsonText(TextOfBenchmarks(all))

\* fs.writeFile(name, text): the directory after the write
WriteFile(dir, name, text) ==
  [n \in (DOMAIN dir) \cup {name} |-> IF n = name THEN text ELSE dir[n]]
HasFile(dir, name) == name \in DOMAIN dir

\* the command lines: --benchmarks, --sizes, and UV_THREADPOOL_SIZE of the
\* orchestrator's own environment
\* --benchmarks names one identifier, known or not, or two: the first a
\* suite whose marker line the orchestrator finds, one whose marker line it
\* does not find, or an unknown identifier (inherited by BENCHMARKS or not),
\* the second the first of these or an unknown identifier
RequestNames == BENCHMARKS \cup {UnknownBenchmark, InheritedName}
PairedNames == {"zlib", "crypto", UnknownBenchmark, InheritedName}
BenchmarkArgs ==
  {<<a>> : a \in RequestNames}
    \cup {<<a, b>> : a \in PairedNames, b \in {"zlib", UnknownBenchmark}}
SizeValues == {Explicit(4), Explicit(16), Auto}
SizesArgs == UNION {[1..n -> SizeValues] : n \in 1..MaxSizes}
ParentEnvs == {{}, {<<"UV_THREADPOOL_SIZE", "8">>}}

benchName == argvBenchmarks[bi]
size == argvSizes[si]

\* the end of one iteration of the inner loop: the next size, or the next
\* iteration of the outer loop
NextIteration ==
  IF si < Len(argvSizes)
  THEN si' = si + 1 /\ bi' = bi /\ pc' = "inner"
  ELSE si' = 1 /\ bi' = bi + 1 /\ pc' = "outer"

\* allResults.benchmarks[bench][size] = v
SetRecord(all, bench, sz, v) ==
  ObjSet(all, bench, ObjSet(ObjGet(all, bench), StringOfSize(sz), v))

\* the outer loop takes the next requested identifier: one with a falsy
\* BENCHMARKS[benchName] is skipped, any other gets an empty object
NextBenchmark ==
  /\ pc = "outer"
  /\ bi <= Len(argvBenchmarks)
  /\ IF ~Truthy(BenchPath(benchName))
     THEN /\ bi' = bi + 1
          /\ UNCHANGED <<pc, si, allResults>>
     ELSE /\ allResults' = ObjSet(allResults, benchName, <<>>)
          /\ si' = 1
          /\ pc' = "inner"
          /\ bi' = bi
  /\ UNCHANGED <<argvBenchmarks, argvSizes, procEnv, startEnv, children,
                 files, faults, trialLog, compareVars, utilsVars>>

\* a main() that spawns the trial process and goes on without awaiting it
SpawnWithoutAwait ==
  /\ pc = "inner"
  /\ HasField(BenchPath(benchName), "path")
  /\ children' = children \cup
                    {[id |-> <<bi, si>>, bench |-> benchName, size |-> size,
                      env |-> RunBenchmarkEnv(procEnv, size).child,
                      phase |-> "running", code |-> 0, stdout |-> <<>>,
                      steps |-> <<>>]}
  /\ NextIteration
  /\ UNCHANGED <<argvBenchmarks, argvSizes, procEnv, startEnv, allResults,
                 files, faults, trialLog, compareVars, utilsVars>>

\* runBenchmark up to the spawn: the trial process exists, main() awaits it
Spawn ==
  /\ pc = "inner"
  /\ HasField(BenchPath(benchName), "path")
  /\ LET e == RunBenchmarkEnv(procEnv, size)
     IN /\ children' = children \cup
                         {[id |-> <<bi, si>>, bench |-> benchName, size |-> size,
                           env |-> e.child, phase |-> "running", code |-> 0,
                           stdout |-> <<>>, steps |-> <<>>]}
        /\ procEnv' = e.parent
  /\ pc' = "await_child"
  /\ UNCHANGED <<argvBenchmarks, argvSizes, startEnv, bi, si, allResults,
                 files, faults, trialLog, compareVars, utilsVars>>

\* path.join(__dirname, benchPath) throws a TypeError for a benchPath that is
\* no string: runBenchmark is not called, the catch block records the error
PathJoinThrows ==
  /\ pc = "inner"
  /\ ~HasField(BenchPath(benchName), "path")
  /\ allResults' = SetRecord(allResults, benchName, size,
                             [error |-> "The \"path\" argument must be of type string"])
  /\ NextIteration
  /\ UNCHANGED <<argvBenchmarks, argvSizes, procEnv, startEnv, children,
                 files, faults, trialLog, compareVars, utilsVars>>

\* the trials whose operation may raise: the first and the last of a suite
RaisePoints(bench) == {1, NumTrials(bench)} \ {0}

Logged(c, outcome) ==
  Append(trialLog, [bench |-> c.bench, size |-> c.size, outcome |-> outcome])

\* the trial process runs all its trials and exits with code 0
ChildCompletes(c) ==
  /\ c.phase = "running"
  /\ children' = (children \ {c}) \cup
                   {[c EXCEPT !.phase = "closed", !.code = 0,
                              !.stdout = SuiteMain(c.bench, c.env, 0),
                              !.steps = SuiteSteps(c.bench, 0)]}
  /\ trialLog' = Logged(c, "completed")
  /\ UNCHANGED <<argvBenchmarks, argvSizes, procEnv, startEnv, pc, bi, si,
                 allResults, files, faults, compareVars, utilsVars>>

\* an operation raises in trial k: main() rejects, console.error prints the
\* error and the process ends with code 0
ChildRaises(c) ==
  /\ c.phase = "running"
  /\ faults < MaxFaults
  /\ \E k \in RaisePoints(c.bench) :
       /\ children' = (children \ {c}) \cup
                        {[c EXCEPT !.phase = "closed", !.code = 0,
                                   !.stdout = SuiteMain(c.bench, c.env, k),
                                   !.steps = SuiteSteps(c.bench, k)]}
       /\ trialLog' = Logged(c, "raised")
  /\ faults' = faults + 1
  /\ UNCHANGED <<argvBenchmarks, argvSizes, procEnv, startEnv, pc, bi, si,
                 allResults, files, compareVars, utilsVars>>

\* the trial process ends with a code other than 0
ChildCrashes(c) ==
  /\ c.phase = "running"
  /\ faults < MaxFaults
  /\ children' = (children \ {c}) \cup
                   {[c EXCEPT !.phase = "closed", !.code = 1]}
  /\ trialLog' = Logged(c, "crashed")
  /\ faults' = faults + 1
  /\ UNCHANGED <<argvBenchmarks, argvSizes, procEnv, startEnv, pc, bi, si,
                 allResults, files, compareVars, utilsVars>>

\* the trial process could not be started: the 'error' event
ChildSpawnError(c) ==
  /\ c.phase = "running"
  /\ faults < MaxFaults
  /\ children' = (children \ {c}) \cup {[c EXCEPT !.phase = "error"]}
  /\ trialLog' = Logged(c, "not_started")
  /\ faults' = faults + 1
  /\ UNCHANGED <<argvBenchmarks, argvSizes, procEnv, startEnv, pc, bi, si,
                 allResults, files, compareVars, utilsVars>>

\* e.message of the rejection of runBenchmark
RejectMessage(c) ==
  IF c.phase = "error" THEN "spawn failed"
  ELSE "Benchmark exited with code 1"

\* a main() whose catch block also writes the error record to the pairing's
\* artifact
OnChildEndPersistError(c) ==
  /\ pc = "await_child"
  /\ c.phase \in {"closed", "error"}
  /\ children' = children \ {c}
  /\ IF c.phase = "error" \/ c.code # 0
     THEN /\ allResults' = SetRecord(allResults, c.bench, c.size,
                                     [error |-> RejectMessage(c)])
          /\ files' = WriteFile(files, ArtifactName(c.bench, c.size),
                                JSONStringify([error |-> RejectMessage(c)]))
          /\ NextIteration
     ELSE /\ allResults' = SetRecord(allResults, c.bench, c.size,
                                     ExtractJson(c.stdout))
          /\ pc' = "await_write"
          /\ UNCHANGED <<bi, si, files>>
  /\ UNCHANGED <<argvBenchmarks, argvSizes, procEnv, startEnv, faults,
                 trialLog, compareVars, utilsVars>>

\* a main() that gives up the sweep when a trial process fails
OnChildEndAborting(c) ==
  /\ pc = "await_child"
  /\ c.phase \in {"closed", "error"}
  /\ children' = children \ {c}
  /\ IF c.phase = "error" \/ c.code # 0
     THEN /\ pc' = "rejected"
          /\ UNCHANGED <<allResults, bi, si>>
     ELSE /\ allResults' = SetRecord(allResults, c.bench, c.size,
                                     ExtractJson(c.stdout))
          /\ pc' = "await_write"
          /\ UNCHANGED <<bi, si>>
  /\ UNCHANGED <<argvBenchmarks, argvSizes, procEnv, startEnv, files, faults,
                 trialLog, compareVars, utilsVars>>

\* the 'close' and 'error' handlers of runBenchmark and the continuation of
\* main(): a rejection is caught and recorded, a resolution is recorded and
\* the write of the pairing's artifact is started
OnChildEnd(c) ==
  /\ pc = "await_child"
  /\ c.phase \in {"closed", "error"}
  /\ children' = children \ {c}
  /\ IF c.phase = "error" \/ c.code # 0
     THEN /\ allResults' = SetRecord(allResults, c.bench, c.size,
                                     [error |-> RejectMessage(c)])
          /\ NextIteration
     ELSE /\ allResults' = SetRecord(allResults, c.bench, c.size,
                                     ExtractJson(c.stdout))
          /\ pc' = "await_write"
          /\ UNCHANGED <<bi, si>>
  /\ UNCHANGED <<argvBenchmarks, argvSizes, procEnv, startEnv, files, faults,
                 trialLog, compareVars, utilsVars>>

\* a main() that goes on to the next pairing without writing the artifact
WriteArtifactSkipped ==
  /\ pc = "await_write"
  /\ NextIteration
  /\ UNCHANGED <<argvBenchmarks, argvSizes, procEnv, startEnv, allResults,
                 children, files, faults, trialLog, compareVars, utilsVars>>

\* fs.writeFile of the pairing's artifact completes
WriteArtifact ==
  /\ pc = "await_write"
  /\ files' = WriteFile(files, ArtifactName(benchName, size),
                     JSONStringify(ObjGet(ObjGet(allResults, benchName),
                                          StringOfSize(size))))
  /\ NextIteration
  /\ UNCHANGED <<argvBenchmarks, argvSizes, procEnv, startEnv, allResults,
                 children, faults, trialLog, compareVars, utilsVars>>

\* a catch block that leaves the record of a pairing whose artifact could not
\* be written as it is
WriteArtifactFailsKeepingRecord ==
  /\ pc = "await_write"
  /\ faults < MaxFaults
  /\ faults' = faults + 1
  /\ trialLog' = [trialLog EXCEPT ![Len(trialLog)].outcome = "write_failed"]
  /\ NextIteration
  /\ UNCHANGED <<argvBenchmarks, argvSizes, procEnv, startEnv, allResults,
                 files, children, compareVars, utilsVars>>

\* fs.writeFile of the pairing's artifact rejects: the catch block records it
WriteArtifactFails ==
  /\ pc = "await_write"
  /\ faults < MaxFaults
  /\ faults' = faults + 1
  /\ allResults' = SetRecord(allResults, benchName, size,
                             [error |-> "write failed"])
  /\ trialLog' = [trialLog EXCEPT ![Len(trialLog)].outcome = "write_failed"]
  /\ NextIteration
  /\ UNCHANGED <<argvBenchmarks, argvSizes, procEnv, startEnv, files,
                 children, compareVars, utilsVars>>

\* after the loops: the combined artifact is written
WriteCombined ==
  /\ pc = "outer"
  /\ bi > Len(argvBenchmarks)
  /\ files' = WriteFile(files, CombinedName, StringifyAllResults(allResults))
  /\ pc' = "done"
  /\ UNCHANGED <<argvBenchmarks, argvSizes, procEnv, startEnv, bi, si,
                 allResults, children, faults, trialLog, compareVars, utilsVars>>

\* the write of the combined artifact rejects: main() rejects and
\* console.error prints the error
WriteCombinedFails ==
  /\ pc = "outer"
  /\ bi > Len(argvBenchmarks)
  /\ faults < MaxFaults
  /\ faults' = faults + 1
  /\ pc' = "rejected"
  /\ UNCHANGED <<argvBenchmarks, argvSizes, procEnv, startEnv, bi, si,
                 allResults, children, files, trialLog, compareVars, utilsVars>>

CompareIdle ==
  /\ loaded = <<>>
  /\ baseline = "4"
  /\ cpc = "idle"
  /\ ci = 0
  /\ tables = <<>>
  /\ summaries = <<>>

\* lib/utils.js is not running
UtilsIdle ==
  /\ upc = "idle"
  /\ warmupIterations = 0
  /\ iterations = 0
  /\ ui = 0
  /\ times = <<>>
  /\ stats = Null
  /\ fnLog = <<>>
  /\ benchResult = Null
  /\ parallelism = 0
  /\ autoSizes = {}

Init ==
  /\ argvBenchmarks \in BenchmarkArgs
  /\ argvSizes \in SizesArgs
  /\ Len(argvBenchmarks) * Len(argvSizes) <= MaxPairings
  /\ procEnv \in ParentEnvs
  /\ startEnv = procEnv
  /\ pc = "outer"
  /\ bi = 1
  /\ si = 1
  /\ allResults = <<>>
  /\ children = {}
  /\ files = <<>>
  /\ faults = 0
  /\ trialLog = <<>>
  /\ CompareIdle
  /\ UtilsIdle

Next ==
  \/ NextBenchmark
  \/ Spawn
  \/ PathJoinThrows
  \/ \E c \in children : ChildCompletes(c)
  \/ \E c \in children : ChildRaises(c)
  \/ \E c \in children : ChildCrashes(c)
  \/ \E c \in children : ChildSpawnError(c)
  \/ \E c \in children : OnChildEnd(c)
  \/ WriteArtifact
  \/ WriteArtifactFails
  \/ WriteCombined
  \/ WriteCombinedFails

Spec == Init /\ [][Next]_vars

\* the step OnChildEnd, told by what it does to children: the handler of a
\* trial process that has ended runs and the process is forgotten
ChildEndHandled ==
  /\ pc = "await_child"
  /\ \E c \in children : /\ c.phase \in {"closed", "error"}
                         /\ children' = children \ {c}

\* The sweep with the progress the event loop guarantees: main() goes on when
\* it is not awaiting, the handler of a trial process that has ended runs, and
\* a write that was started settles.  Nothing makes a trial process end.
SpecLive ==
  /\ Init
  /\ [][Next]_vars
  /\ WF_vars(NextBenchmark)
  /\ WF_vars(Spawn)
  /\ WF_vars(PathJoinThrows)
  /\ WF_children(ChildEndHandled)
  /\ WF_vars(WriteArtifact \/ WriteArtifactFails)
  /\ WF_vars(WriteCombined \/ WriteCombinedFails)

----------------------------------------------------------------------------
(* Properties of the sweep *)

\* the (suite, configuration) pairs of the sweep
KnownRequested == {argvBenchmarks[i] : i \in 1..Len(argvBenchmarks)} \cap BENCHMARKS
RequestedSizes == {argvSizes[j] : j \in 1..Len(argvSizes)}
SizesDistinct ==
  \A i, j \in 1..Len(argvSizes) : i # j => argvSizes[i] # argvSizes[j]

HasKey(all, bench, sz) ==
  ObjHas(all, bench) /\ ObjHas(ObjGet(all, bench), StringOfSize(sz))
RecordOf(all, bench, sz) == ObjGet(ObjGet(all, bench), StringOfSize(sz))

\* the trial processes of a pair that have ended, and the last of them
TrialsOf(bench, sz) ==
  {i \in 1..Len(trialLog) : trialLog[i].bench = bench /\ trialLog[i].size = sz}
LastTrialOf(bench, sz) ==
  trialLog[CHOOSE i \in TrialsOf(bench, sz) : \A j \in TrialsOf(bench, sz) : j <= i]

\* the payload the suite of a pair prints when all its trials ran
PayloadOf(bench, sz) == SuitePayload(bench, RunBenchmarkEnv(startEnv, sz).child)

\* the last logged trial process belongs to the pairing in progress
PairingInProgress ==
  \/ pc = "await_write"
  \/ \E c \in children : c.phase # "running"

\* the decimal string of a pool size
DecimalString(n) ==
  CASE n = 4 -> "4"
    [] n = 8 -> "8"
    [] n = 16 -> "16"

PoolSizeEntries(env) == {p \in env : p[1] = "UV_THREADPOOL_SIZE"}

\* C1: when the sweep completes, every pair of a known requested suite and a
\* requested configuration was run and has a key in the combined result set;
\* the record is the parsed payload when the trial process ran all its
\* trials and exited 0, and has `error` when the process did not start or
\* exited non-zero.
C1_CompleteResultSet ==
  pc = "done" =>
    \A b \in KnownRequested, s \in RequestedSizes :
      /\ TrialsOf(b, s) # {}
      /\ HasKey(allResults, b, s)
      /\ HasKey(ParseBenchmarks(files[CombinedName].value), b, s)
      /\ LastTrialOf(b, s).outcome = "completed"
           => RecordOf(allResults, b, s) = PayloadOf(b, s)
      /\ LastTrialOf(b, s).outcome \in {"crashed", "not_started"}
           => HasField(RecordOf(allResults, b, s), "error")

\* C2: at most one trial process exists at any time, and when main() is about
\* to spawn the process of a pairing no earlier process exists any more.
C2_OneTrialProcess ==
  /\ Cardinality(children) <= 1
  /\ pc = "inner" => children = {}

\* C2 witness: the process of a later pairing runs after an earlier process
\* has ended.
C2_Witness ==
  /\ Len(trialLog) >= 1
  /\ \E c \in children : c.phase = "running" /\ c.id # <<1, 1>>

\* C3: the environment of every trial process has UV_THREADPOOL_SIZE absent
\* for `auto` and equal to the decimal string of n for the explicit size n,
\* the same holds for the environments measureMemory builds inside a memory
\* suite process, and process.env of the orchestrator is the one it started
\* with.
C3_IsolatedEnvironment ==
  /\ procEnv = startEnv
  /\ \A c \in children :
       /\ c.size.kind = "auto" => PoolSizeEntries(c.env) = {}
       /\ c.size.kind = "int" =>
            PoolSizeEntries(c.env) =
              {<<"UV_THREADPOOL_SIZE", DecimalString(c.size.n)>>}
       /\ c.env \ PoolSizeEntries(c.env) = startEnv \ PoolSizeEntries(startEnv)
       /\ c.bench = "memory" =>
            \A s \in SizeValues :
              LET e == MeasureMemoryEnv(c.env, s)
              IN /\ e.parent = c.env
                 /\ s.kind = "auto" => PoolSizeEntries(e.child) = {}
                 /\ s.kind = "int" =>
                      PoolSizeEntries(e.child) =
                        {<<"UV_THREADPOOL_SIZE", DecimalString(s.n)>>}

\* C3 witness: an `auto` trial process spawned after an explicit-size trial by
\* an orchestrator whose own environment sets UV_THREADPOOL_SIZE.
C3_Witness ==
  /\ PoolSizeEntries(startEnv) # {}
  /\ Len(trialLog) >= 1
  /\ trialLog[1].size.kind = "int"
  /\ \E c \in children : c.size.kind = "auto" /\ PoolSizeEntries(c.env) = {}

\* C4: when the sweep completes, the record of a pair whose trial process
\* exited 0 without printing a marker line has `error` and no `results`.
C4_ParseFailureIsError ==
  pc = "done" =>
    \A b \in KnownRequested, s \in RequestedSizes :
      (TrialsOf(b, s) # {} /\ LastTrialOf(b, s).outcome = "raised")
        => /\ HasKey(allResults, b, s)
           /\ HasField(RecordOf(allResults, b, s), "error")
           /\ ~HasField(RecordOf(allResults, b, s), "results")

\* C5: when the process of one of the suites fs, crypto, dns, zlib and mixed
\* ran all its trials and exited 0, the record the orchestrator stores has a
\* `results` list with one entry per trial of the suite, in the order of the
\* trials.
C5_ResultsOfEverySuite ==
  (/\ pc = "await_write"
   /\ benchName \in {"fs", "crypto", "dns", "zlib", "mixed"}
   /\ trialLog[Len(trialLog)].outcome = "completed")
    => LET rec == RecordOf(allResults, benchName, size)
       IN /\ HasField(rec, "results")
          /\ Len(rec.results) = NumTrials(benchName)
          /\ \A i \in 1..NumTrials(benchName) :
               rec.results[i].name = TrialName(benchName, i)

\* C6: for distinct requested configurations, the keys of every suite of the
\* combined result set, in memory and in the combined artifact, enumerate in
\* the order in which the configurations were requested.
C6_RequestedOrder ==
  (pc = "done" /\ SizesDistinct) =>
    \A b \in KnownRequested :
      /\ ObjKeys(ObjGet(allResults, b))
           = [i \in 1..Len(argvSizes) |-> StringOfSize(argvSizes[i])]
      /\ LET text == MemberText(files[CombinedName].value, b)
         IN [i \in 1..Len(text.members) |-> text.members[i].key]
           = [i \in 1..Len(argvSizes) |-> StringOfSize(argvSizes[i])]

C8_ArtifactForEveryPair ==
  pc = "done" =>
    \A b \in KnownRequested, s \in RequestedSizes :
      /\ HasFile(files, ArtifactName(b, s))
      /\ LastTrialOf(b, s).outcome = "completed"
           => files[ArtifactName(b, s)] = JSONStringify(PayloadOf(b, s))
      /\ LastTrialOf(b, s).outcome \in {"crashed", "not_started"}
           => HasField(ParseRecord(files[ArtifactName(b, s)].value), "error")

\* C8 as the code has it: after a completed sweep a pair has a per-pairing
\* artifact exactly when one of its trial processes exited 0 and the write of
\* the artifact did not fail; the artifact holds the payload or null, never
\* an error object.
C8_ArtifactForResolvedPairs ==
  pc = "done" =>
    \A b \in KnownRequested, s \in RequestedSizes :
      LET resolved == {i \in TrialsOf(b, s) :
                         trialLog[i].outcome \in {"completed", "raised"}}
      IN /\ HasFile(files, ArtifactName(b, s)) <=> resolved # {}
         /\ resolved # {} =>
              /\ files[ArtifactName(b, s)]
                   \in {JSONStringify(PayloadOf(b, s)), JSONStringify(Null)}
              /\ ~HasField(ParseRecord(files[ArtifactName(b, s)].value), "error")

\* C8 witness: a completed sweep in which one pair has its artifact and
\* another pair, whose trial process failed, has none.
C8_Witness ==
  /\ pc = "done"
  /\ \E b \in KnownRequested, s \in RequestedSizes :
       /\ LastTrialOf(b, s).outcome = "completed"
       /\ HasFile(files, ArtifactName(b, s))
  /\ \E b \in KnownRequested, s \in RequestedSizes :
       /\ LastTrialOf(b, s).outcome \in {"crashed", "not_started"}
       /\ ~HasFile(files, ArtifactName(b, s))

----------------------------------------------------------------------------
(* The analyzer: compare-results.js *)

\* calculateImprovement: null, or the exact quotient (baseline - current) * 100
\* over baseline
calculateImprovement(b, c) ==
  IF b = 0 \/ c = 0 THEN Null
  ELSE [num |-> (b - c) * 100, den |-> b]

\* formatImprovement: 'N/A' or the formatted number
NACell == [na |-> TRUE]
formatImprovement(imp) ==
  IF imp = Null THEN NACell ELSE [na |-> FALSE, value |-> imp]

\* a find that takes the first element whatever its name
FindFirst(results, name) ==
  IF Len(results) = 0 THEN Undefined ELSE results[1]

\* array.find(r => r.name === name): the first such element, or Undefined
FindByName(results, name) ==
  LET hits == {i \in 1..Len(results) : results[i].name = name}
  IN IF hits = {} THEN Undefined
     ELSE results[CHOOSE i \in hits : \A j \in hits : i <= j]

\* Object.keys(results).filter(s => results[s] && !results[s].error)
NonErroredSizes(results) ==
  SelectSeq(ObjKeys(results),
            LAMBDA s : /\ Truthy(ObjGet(results, s))
                       /\ ~HasField(ObjGet(results, s), "error"))

\* !baselineData || !baselineData.results
NoBaselineData(results, base) ==
  \/ ~Truthy(ObjGet(results, base))
  \/ ~HasField(ObjGet(results, base), "results")

\* one cell of a row of the comparison table
TableCell(results, base, testName, sz) ==
  LET baselineTest == FindByName(ObjGet(results, base).results, testName)
      sizeData == ObjGet(results, sz)
  IN IF ~Truthy(sizeData) \/ ~HasField(sizeData, "results") THEN NACell
     ELSE LET sizeTest == FindByName(sizeData.results, testName)
          IN IF sizeTest = Undefined THEN NACell
             ELSE formatImprovement(
                    calculateImprovement(baselineTest.mean, sizeTest.mean))

\* what printComparisonTable prints for one suite
printComparisonTable(benchmarkName, base, results) ==
  IF NoBaselineData(results, base)
  THEN [suite |-> benchmarkName, noBaseline |-> TRUE,
        columns |-> <<>>, rows |-> <<>>]
  ELSE LET baselineData == ObjGet(results, base)
           testNames == [i \in 1..Len(baselineData.results) |->
                           baselineData.results[i].name]
           columns == SelectSeq(NonErroredSizes(results), LAMBDA s : s # base)
       IN [suite |-> benchmarkName, noBaseline |-> FALSE,
           columns |-> columns,
           rows |-> [i \in 1..Len(testNames) |->
                       [test |-> testNames[i],
                        cells |-> [j \in 1..Len(columns) |->
                                     TableCell(results, base, testNames[i],
                                               columns[j])]]]]

EmptySummary == [improvements |-> <<>>, regressions |-> <<>>, neutral |-> <<>>]

\* a classification that takes a delta of exactly 5 as an improvement
IsImprovementInclusive(imp) == imp.num >= 5 * imp.den

\* improvement > 5, improvement < -5
IsImprovement(imp) == imp.num > 5 * imp.den
IsRegression(imp) == imp.num < (0 - 5) * imp.den

\* the body of the loop over data.results in printSummaryTable
AddResult(summary, benchmarkName, baselineData, result) ==
  LET baselineResult == FindByName(baselineData.results, result.name)
  IN IF baselineResult = Undefined THEN summary
     ELSE LET improvement ==
                calculateImprovement(baselineResult.mean, result.mean)
              entry == [benchmark |-> benchmarkName, test |-> result.name,
                        improvement |-> improvement,
                        baselineMs |-> baselineResult.mean,
                        currentMs |-> result.mean]
          IN IF improvement = Null THEN summary
             ELSE IF IsImprovement(improvement)
             THEN [summary EXCEPT !.improvements = Append(@, entry)]
             ELSE IF IsRegression(improvement)
             THEN [summary EXCEPT !.regressions = Append(@, entry)]
             ELSE [summary EXCEPT !.neutral = Append(@, entry)]

RECURSIVE AddResults(_, _, _, _, _)
AddResults(summary, benchmarkName, baselineData, results, k) ==
  IF k > Len(results) THEN summary
  ELSE AddResults(AddResult(summary, benchmarkName, baselineData, results[k]),
                  benchmarkName, baselineData, results, k + 1)

\* the loop over Object.entries(sizeResults) in printSummaryTable
RECURSIVE AddSizes(_, _, _, _, _)
AddSizes(sums, benchmarkName, base, sizeResults, j) ==
  IF j > Len(sizeResults) THEN sums
  ELSE LET sz == sizeResults[j].key
           data == sizeResults[j].val
       IN IF sz = base \/ ~Truthy(data) \/ ~HasField(data, "results")
          THEN AddSizes(sums, benchmarkName, base, sizeResults, j + 1)
          ELSE LET before == IF ObjHas(sums, sz) THEN ObjGet(sums, sz)
                             ELSE EmptySummary
                   after == AddResults(before, benchmarkName,
                                       ObjGet(sizeResults, base),
                                       data.results, 1)
               IN AddSizes(ObjSet(sums, sz, after), benchmarkName, base,
                           sizeResults, j + 1)

\* the loop over Object.entries(allResults.benchmarks) in printSummaryTable
RECURSIVE AddBenchmarks(_, _, _, _)
\* a loop that ends at the first suite without baseline data
AddBenchmarksBreak(sums, all, base, i) ==
  IF i > Len(all) THEN sums
  ELSE IF NoBaselineData(all[i].val, base) THEN sums
  ELSE AddBenchmarks(AddSizes(sums, all[i].key, base, all[i].val, 1),
                     all, base, i + 1)

AddBenchmarks(sums, all, base, i) ==
  IF i > Len(all) THEN sums
  ELSE IF NoBaselineData(all[i].val, base)
  THEN AddBenchmarks(sums, all, base, i + 1)
  ELSE AddBenchmarks(AddSizes(sums, all[i].key, base, all[i].val, 1),
                     all, base, i + 1)

\* a.improvement < b.improvement
ImpLess(a, b) == a.num * b.den < b.num * a.den

\* the comparators of the two sorts: a goes before b
SortsBefore(a, b, desc) ==
  IF desc THEN ImpLess(b.improvement, a.improvement)
  ELSE ImpLess(a.improvement, b.improvement)

\* array.sort: a stable sort, e goes after the elements it is not before
InsertEntry(sorted, e, desc) ==
  LET ahead == {i \in 1..Len(sorted) : ~SortsBefore(e, sorted[i], desc)}
      p == IF ahead = {} THEN 0
           ELSE CHOOSE i \in ahead : \A j \in ahead : j <= i
  IN SubSeq(sorted, 1, p) \o <<e>> \o SubSeq(sorted, p + 1, Len(sorted))

\* a sort that leaves the entries in the order they were pushed
SortEntriesUnsorted(entries, desc) == entries

RECURSIVE SortEntries(_, _)
SortEntries(entries, desc) ==
  IF Len(entries) = 0 THEN <<>>
  ELSE InsertEntry(SortEntries(SubSeq(entries, 1, Len(entries) - 1), desc),
                   entries[Len(entries)], desc)

\* the summaries after the printing loop of printSummaryTable, which sorts
\* the improvements and the regressions of each summary in place
SortedSummaries(sums) ==
  [i \in 1..Len(sums) |->
     [key |-> sums[i].key,
      val |-> [improvements |-> SortEntries(sums[i].val.improvements, TRUE),
               regressions |-> SortEntries(sums[i].val.regressions, FALSE),
               neutral |-> sums[i].val.neutral]]]

\* sorted.slice(0, 5)
TopCount == 5
Slice5(entries) ==
  SubSeq(entries, 1, IF Len(entries) < TopCount THEN Len(entries) ELSE TopCount)

\* the summaries of printSummaryTable
printSummaryTable(all, base) == SortedSummaries(AddBenchmarks(<<>>, all, base, 1))

\* the text of the combined artifact that the analyzer may find
GarbageText == [t |-> "garbage"]

\* names and means of the results of a loaded file
TestNames == {"A", "B"}
ResultEntries ==
  {[name |-> "A", mean |-> 100], [name |-> "A", mean |-> 80],
   [name |-> "B", mean |-> 100]}
ResultLists ==
  {l \in UNION {[1..n -> ResultEntries] : n \in 0..MaxResults} :
     \A i, j \in 1..Len(l) : l[i] = l[j] => i = j}
RecordValues ==
  {Null, [error |-> "Benchmark exited with code 1"],
   [benchmark |-> "memory-usage", baseline |-> <<>>, underLoad |-> <<>>]}
    \cup {[benchmark |-> "suite", threadpoolSize |-> "n", results |-> l] :
            l \in ResultLists}
\* the objects of one suite: each of the keys "4" and "auto" absent or present
SuiteObjects ==
  {<<>>}
    \cup {<<[key |-> "4", val |-> r]>> : r \in RecordValues}
    \cup {<<[key |-> "auto", val |-> r]>> : r \in RecordValues}
    \cup {<<[key |-> "4", val |-> r], [key |-> "auto", val |-> q]>> :
            r \in RecordValues, q \in RecordValues}
LoadedFiles ==
  {<<[key |-> "crypto", val |-> a]>> : a \in SuiteObjects}
    \cup {<<[key |-> "crypto", val |-> a], [key |-> "zlib", val |-> b]>> :
            a \in SuiteObjects, b \in SuiteObjects}
BaselineArgs == {"4", "auto"}

\* the comparison report of main for a result set: the tables, the summaries
\* and whether printRecommendations found auto data
HasAutoData(all) ==
  \E i \in 1..Len(all) :
    /\ Truthy(ObjGet(all[i].val, "auto"))
    /\ ~HasField(ObjGet(all[i].val, "auto"), "error")
Report(all, base) ==
  [tables |-> [i \in 1..Len(all) |->
                 printComparisonTable(all[i].key, base, all[i].val)],
   summaries |-> printSummaryTable(all, base),
   hasAutoData |-> HasAutoData(all)]

\* a main() that goes on with an empty result set when the artifact cannot be
\* loaded
LoadResultsNoExit ==
  /\ cpc = "start"
  /\ loaded' = IF HasFile(files, CombinedName) /\ files[CombinedName].t = "json"
                  /\ files[CombinedName].value # TextNull
               THEN ParseBenchmarks(files[CombinedName].value)
               ELSE <<>>
  /\ cpc' = "tables"
  /\ ci' = 1
  /\ UNCHANGED <<sweepVars, utilsVars, baseline, tables, summaries>>

\* main: the combined artifact is read and parsed, or the analyzer exits 1;
\* a text that parses to null makes main() reject when it reads
\* allResults.timestamp, and console.error prints the error
LoadResults ==
  /\ cpc = "start"
  /\ IF HasFile(files, CombinedName) /\ files[CombinedName].t = "json"
     THEN IF files[CombinedName].value = TextNull
          THEN /\ cpc' = "rejected"
               /\ UNCHANGED <<loaded, ci>>
          ELSE /\ loaded' = ParseBenchmarks(files[CombinedName].value)
               /\ cpc' = "tables"
               /\ ci' = 1
     ELSE /\ cpc' = "exit1"
          /\ UNCHANGED <<loaded, ci>>
  /\ UNCHANGED <<sweepVars, utilsVars, baseline, tables, summaries>>

\* a printComparisonTable that deletes the null and the errored records
\* from the suite object it was given
PrintComparisonPruning ==
  /\ cpc = "tables"
  /\ ci <= Len(loaded)
  /\ tables' = Append(tables,
                      printComparisonTable(loaded[ci].key, baseline,
                                           loaded[ci].val))
  /\ loaded' = [loaded EXCEPT ![ci].val =
                  SelectSeq(loaded[ci].val,
                            LAMBDA e : /\ Truthy(e.val)
                                       /\ ~HasField(e.val, "error"))]
  /\ ci' = ci + 1
  /\ UNCHANGED <<sweepVars, utilsVars, baseline, cpc, summaries>>

\* main: one iteration of the loop that prints the comparison tables
PrintComparison ==
  /\ cpc = "tables"
  /\ ci <= Len(loaded)
  /\ tables' = Append(tables,
                      printComparisonTable(loaded[ci].key, baseline,
                                           loaded[ci].val))
  /\ ci' = ci + 1
  /\ UNCHANGED <<sweepVars, utilsVars, loaded, baseline, cpc, summaries>>

\* main: printSummaryTable
PrintSummary ==
  /\ cpc = "tables"
  /\ ci > Len(loaded)
  /\ summaries' = printSummaryTable(loaded, baseline)
  /\ cpc' = "recommend"
  /\ UNCHANGED <<sweepVars, utilsVars, loaded, baseline, ci, tables>>

\* main: printRecommendations, and the end of main
PrintRecommendations ==
  /\ cpc = "recommend"
  /\ cpc' = "done"
  /\ UNCHANGED <<sweepVars, utilsVars, loaded, baseline, ci, tables, summaries>>

InitCompare ==
  /\ argvBenchmarks = <<>>
  /\ argvSizes = <<>>
  /\ procEnv = {}
  /\ startEnv = {}
  /\ pc = "idle"
  /\ bi = 1
  /\ si = 1
  /\ allResults = <<>>
  /\ children = {}
  /\ faults = 0
  /\ trialLog = <<>>
  /\ files \in {<<>>, WriteFile(<<>>, CombinedName, GarbageText),
                WriteFile(<<>>, CombinedName, JsonText(TextNull))}
                \cup {WriteFile(<<>>, CombinedName, StringifyAllResults(f)) :
                        f \in LoadedFiles}
  /\ baseline \in BaselineArgs
  /\ loaded = <<>>
  /\ cpc = "start"
  /\ ci = 0
  /\ tables = <<>>
  /\ summaries = <<>>
  /\ UtilsIdle

NextCompare ==
  \/ LoadResults
  \/ PrintComparison
  \/ PrintSummary
  \/ PrintRecommendations

SpecCompare == InitCompare /\ [][NextCompare]_vars

\* the means of a baseline result and of its counterpart in a loaded file
\* with one suite, one test and the configurations 4 and auto
BaselineMeans == {0, 20, 100, 1000}
CurrentMeans == {0, 19, 21, 80, 95, 100, 105, 949, 950, 1050, 1051}
PairFile(b, c) ==
  <<[key |-> "crypto",
     val |-> <<[key |-> "4",
                val |-> [benchmark |-> "suite", threadpoolSize |-> "n",
                         results |-> <<[name |-> "A", mean |-> b]>>]],
               [key |-> "auto",
                val |-> [benchmark |-> "suite", threadpoolSize |-> "n",
                         results |-> <<[name |-> "A", mean |-> c]>>]]>>]>>

\* the analyzer started on a file with one matched pair
InitClassify ==
  /\ argvBenchmarks = <<>>
  /\ argvSizes = <<>>
  /\ procEnv = {}
  /\ startEnv = {}
  /\ pc = "idle"
  /\ bi = 1
  /\ si = 1
  /\ allResults = <<>>
  /\ children = {}
  /\ faults = 0
  /\ trialLog = <<>>
  /\ files \in {WriteFile(<<>>, CombinedName, StringifyAllResults(PairFile(b, c))) :
                   b \in BaselineMeans, c \in CurrentMeans}
  /\ baseline = "4"
  /\ loaded = <<>>
  /\ cpc = "start"
  /\ ci = 0
  /\ tables = <<>>
  /\ summaries = <<>>
  /\ UtilsIdle

SpecClassify == InitClassify /\ [][NextCompare]_vars

----------------------------------------------------------------------------
(* Properties of the analyzer *)

\* the record of a suite at the baseline key is absent, null, errored or
\* without results
BaselineInvalid(rs) ==
  \/ ~ObjHas(rs, baseline)
  \/ ObjGet(rs, baseline) = Null
  \/ HasField(ObjGet(rs, baseline), "error")
  \/ ~HasField(ObjGet(rs, baseline), "results")

\* the configurations of a suite, other than the baseline, whose record is
\* there and not errored
OtherConfigs(rs) ==
  SelectSeq(ObjKeys(rs),
            LAMBDA k : /\ k # baseline
                       /\ ObjGet(rs, k) # Null
                       /\ ~HasField(ObjGet(rs, k), "error"))

\* the entries of the improvement, regression and neutral lists of a
\* configuration
SummaryEntries(k) ==
  IF ObjHas(summaries, k)
  THEN LET v == ObjGet(summaries, k)
       IN {v.improvements[i] : i \in 1..Len(v.improvements)}
            \cup {v.regressions[i] : i \in 1..Len(v.regressions)}
            \cup {v.neutral[i] : i \in 1..Len(v.neutral)}
  ELSE {}
SummaryKeys == {summaries[i].key : i \in 1..Len(summaries)}

AnalyzerReported == cpc \in {"recommend", "done"}

\* C9: a combined artifact that can be loaded never makes the analyzer exit;
\* once the tables and the summary are printed, a suite whose baseline record
\* is absent, errored or without results has the "no baseline" diagnostic, no
\* row and no summary entry, and every other suite has one row per baseline
\* test, one column per other non-errored configuration, and a summary entry
\* for every result of another configuration that has a baseline counterpart.
C9_InvalidBaselineSkipped ==
  /\ cpc = "exit1" => ~(HasFile(files, CombinedName)
                         /\ files[CombinedName] # GarbageText)
  /\ AnalyzerReported =>
       /\ Len(tables) = Len(loaded)
       /\ \A i \in 1..Len(loaded) :
            LET name == loaded[i].key
                rs == loaded[i].val
                tbl == tables[i]
            IN /\ tbl.suite = name
               /\ IF BaselineInvalid(rs)
                  THEN /\ tbl.noBaseline
                       /\ tbl.rows = <<>>
                       /\ \A k \in SummaryKeys :
                            \A e \in SummaryEntries(k) : e.benchmark # name
                  ELSE LET base == ObjGet(rs, baseline).results
                       IN /\ ~tbl.noBaseline
                          /\ Len(tbl.rows) = Len(base)
                          /\ \A r \in 1..Len(base) :
                               /\ tbl.rows[r].test = base[r].name
                               /\ Len(tbl.rows[r].cells) = Len(tbl.columns)
                          /\ tbl.columns = OtherConfigs(rs)
                          /\ \A j \in 1..Len(tbl.columns) :
                               LET k == tbl.columns[j]
                                   other == ObjGet(rs, k)
                               IN HasField(other, "results") =>
                                    \A q \in 1..Len(other.results) :
                                      (\E r \in 1..Len(base) :
                                         /\ base[r].name = other.results[q].name
                                         /\ base[r].mean # 0
                                         /\ other.results[q].mean # 0)
                                        => \E e \in SummaryEntries(k) :
                                             /\ e.benchmark = name
                                             /\ e.test = other.results[q].name
                                             /\ e.currentMs = other.results[q].mean

\* C9 witness: the analyzer has ended on a file whose first suite has no valid
\* baseline record and whose second suite has one, with a row in its table
\* and an entry in a summary.
C9_Witness ==
  /\ cpc = "done"
  /\ Len(loaded) = 2
  /\ BaselineInvalid(loaded[1].val)
  /\ ~BaselineInvalid(loaded[2].val)
  /\ tables[1].noBaseline
  /\ Len(tables[2].rows) >= 1
  /\ \E k \in SummaryKeys : \E e \in SummaryEntries(k) : e.benchmark = loaded[2].key

\* C10: for a suite with a valid baseline record and another configuration
\* whose record is there and not errored, a baseline test name that no result
\* of the other record has is N/A in that configuration's column and has no
\* entry in that configuration's improvement, regression and neutral lists.
C10_MissingMatchIsNA ==
  AnalyzerReported =>
    \A i \in 1..Len(loaded) :
      LET name == loaded[i].key
          rs == loaded[i].val
          tbl == tables[i]
      IN ~BaselineInvalid(rs) =>
           \A c \in 1..Len(OtherConfigs(rs)) :
             LET k == OtherConfigs(rs)[c]
                 other == ObjGet(rs, k)
                 base == ObjGet(rs, baseline).results
             IN \A r \in 1..Len(base) :
                  (\/ ~HasField(other, "results")
                   \/ \A q \in 1..Len(other.results) :
                        other.results[q].name # base[r].name)
                    => /\ \E j \in 1..Len(tbl.columns) :
                            /\ tbl.columns[j] = k
                            /\ tbl.rows[r].cells[j] = NACell
                       /\ \A e \in SummaryEntries(k) :
                            ~(e.benchmark = name /\ e.test = base[r].name)

\* C10 witness: the analyzer has ended and a table has an N/A cell for a
\* baseline test that the other record, which has results, does not name.
C10_Witness ==
  /\ cpc = "done"
  /\ \E i \in 1..Len(loaded) :
       /\ ~BaselineInvalid(loaded[i].val)
       /\ \E j \in 1..Len(tables[i].columns), r \in 1..Len(tables[i].rows) :
            LET other == ObjGet(loaded[i].val, tables[i].columns[j])
            IN /\ HasField(other, "results")
               /\ Len(other.results) >= 1
               /\ \A q \in 1..Len(other.results) :
                    other.results[q].name # tables[i].rows[r].test
               /\ tables[i].rows[r].cells[j] = NACell

\* C11: a test name that a record of another configuration has and the
\* baseline record has not gets a row of the comparison table, with N/A in
\* that configuration's column.
C11_OtherOnlyNameReported ==
  AnalyzerReported =>
    \A i \in 1..Len(loaded) :
      LET rs == loaded[i].val
          tbl == tables[i]
      IN ~BaselineInvalid(rs) =>
           \A c \in 1..Len(OtherConfigs(rs)) :
             LET other == ObjGet(rs, OtherConfigs(rs)[c])
                 base == ObjGet(rs, baseline).results
             IN HasField(other, "results") =>
                  \A q \in 1..Len(other.results) :
                    (\A r \in 1..Len(base) : base[r].name # other.results[q].name)
                      => \E r \in 1..Len(tbl.rows) :
                           /\ tbl.rows[r].test = other.results[q].name
                           /\ tbl.rows[r].cells[c] = NACell

\* the matched pair of a file of one pair, and the list its entry is in
PairBaselineMean == ObjGet(loaded[1].val, "4").results[1].mean
PairCurrentMean == ObjGet(loaded[1].val, "auto").results[1].mean
PairSummary == ObjGet(summaries, "auto")

ReportBaselines == {"4", "16", "auto"}

\* C13: when the sweep has written the combined artifact, the report of the
\* analyzer on the text of the artifact parsed back is, for every baseline
\* key, the report on the result set in memory.
C13_RoundTripReport ==
  pc = "done" =>
    \A base \in ReportBaselines :
      Report(ParseBenchmarks(files[CombinedName].value), base)
        = Report(allResults, base)

\* C13 witness: a written result set with an error record, a null record and
\* two records with results under the keys 4 and auto, whose report has a
\* delta.
C13_Witness ==
  /\ pc = "done"
  /\ \E i \in 1..Len(allResults) :
       \E j \in 1..Len(allResults[i].val) :
         HasField(allResults[i].val[j].val, "error")
  /\ \E i \in 1..Len(allResults) :
       /\ ObjKeys(allResults[i].val) = <<"4", "auto">>
       /\ HasField(allResults[i].val[1].val, "results")
       /\ HasField(allResults[i].val[2].val, "results")
       /\ Len(Report(allResults, "4").tables[i].rows) >= 1
       /\ ~Report(allResults, "4").tables[i].rows[1].cells[1].na

\* the combined artifact is missing or its text is not JSON
Unloadable ==
  \/ ~HasFile(files, CombinedName)
  \/ files[CombinedName].t # "json"

\* the exit status of the analyzer process that has ended
AnalyzerEnded == cpc \in {"done", "rejected", "exit1"}
AnalyzerExitStatus == IF cpc = "exit1" THEN 1 ELSE 0

\* C14: the analyzer that has ended has a non-zero exit status exactly when
\* the combined artifact could not be read or parsed; it never gets past the
\* load of such an artifact.
C14_ExitStatus ==
  /\ AnalyzerEnded => (AnalyzerExitStatus # 0 <=> Unloadable)
  /\ Unloadable => cpc \in {"start", "exit1"}

\* C14 witness: the analyzer has ended with status 1 on an artifact whose
\* text is not JSON.
C14_Witness ==
  /\ cpc = "exit1"
  /\ HasFile(files, CombinedName)
  /\ files[CombinedName] = GarbageText

----------------------------------------------------------------------------
(* lib/utils.js: getAutoSize, calculateStats and runBenchmark.             *)
(*                                                                         *)
(* A duration sample is a natural number that a double holds exactly.  The  *)
(* sum and the mean are doubles: binary floating-point numbers m * 2^e,     *)
(* every operation rounded to the nearest number of Precision significant   *)
(* bits, ties to the even one (a double of JavaScript has 53 bits).         *)

MaxWarmup == 2
MaxIterations == 3
MaxSamples == 4
MaxDuration == 2
MaxParallelism == 1030
Precision == 7

Durations == 0..MaxDuration

\* the defaults of options.warmupIterations and options.iterations
DefaultWarmup == 5
DefaultIterations == 20

MathMin(a, b) == IF a < b THEN a ELSE b
MathMax(a, b) == IF a > b THEN a ELSE b

\* an auto size without the upper limit
getAutoSizeUnlimited(p) == MathMax(4, p)

\* getAutoSize of lib/utils.js, with p the value of os.availableParallelism()
getAutoSize(p) == MathMin(MathMax(4, p), 1024)

\* the autoSize of main() of server.js
ServerAutoSize(p) == MathMin(MathMax(4, p), 1024)

\* Array.prototype.sort((a, b) => a - b) on numbers: a stable sort, the
\* element at index i goes behind every smaller element and behind the equal
\* elements of a lower index
SortRank(arr, i) ==
  Cardinality({j \in 1..Len(arr) :
                 arr[j] < arr[i] \/ (arr[j] = arr[i] /\ j < i)}) + 1
SortAscending(arr) ==
  [k \in 1..Len(arr) |-> arr[CHOOSE i \in 1..Len(arr) : SortRank(arr, i) = k]]

\* times.sort(...): the caller's array is sorted in place
SortInPlace(arr) ==
  [array |-> SortAscending(arr), sorted |-> SortAscending(arr)]

\* [...times].sort(...): the caller's array after the call, and the sorted
\* copy
SortedCopy(arr) == [array |-> arr, sorted |-> SortAscending(arr)]

\* arr[k] of JavaScript, k counted from 0
At(arr, k) == IF k >= 0 /\ k < Len(arr) THEN arr[k + 1] ELSE Undefined

\* the number of bits of a natural number
RECURSIVE BitLen(_)
BitLen(x) == IF x = 0 THEN 0 ELSE 1 + BitLen(x \div 2)

\* the double m * 2^e, m odd or the double 0
RECURSIVE Canon(_, _)
Canon(m, e) ==
  IF m = 0 THEN [m |-> 0, e |-> 0]
  ELSE IF m % 2 = 0 THEN Canon(m \div 2, e + 1)
  ELSE [m |-> m, e |-> e]

\* the double nearest to the exact value n * 2^e, ties to even
RoundToDouble(n, e) ==
  LET k == BitLen(n) - Precision
  IN IF k <= 0 THEN Canon(n, e)
     ELSE LET q == n \div 2^k
              r == n % 2^k
              half == 2^(k - 1)
          IN Canon(IF r > half \/ (r = half /\ q % 2 = 1) THEN q + 1 ELSE q,
                   e + k)

\* a + b of two doubles
DoubleAdd(a, b) ==
  LET e == MathMin(a.e, b.e)
  IN RoundToDouble(a.m * 2^(a.e - e) + b.m * 2^(b.e - e), e)

\* a / n of a double and a natural number: 0 / 0 is NaN; the quotient is
\* taken with three bits more than a double holds, the lowest one set when
\* the division left a remainder
NaN == [nan |-> TRUE]
DoubleDiv(a, n) ==
  IF n = 0 THEN NaN
  ELSE LET s == Precision + 2 + BitLen(n)
           q == (a.m * 2^s) \div n
           sticky == IF (a.m * 2^s) % n = 0 THEN 0 ELSE 1
       IN RoundToDouble(2 * q + sticky, a.e - s - 1)

\* arr.reduce((a, b) => a + b, 0): the addends are added from the left
\* the accumulator after arr[lo..hi] were added to acc, one after the other
RECURSIVE FoldSumFrom(_, _, _, _)
FoldSumFrom(acc, arr, lo, hi) ==
  IF lo > hi THEN acc
  ELSE IF lo = hi THEN DoubleAdd(acc, RoundToDouble(arr[lo], 0))
  ELSE LET mid == (lo + hi) \div 2
           left == FoldSumFrom(acc, arr, lo, mid)
       IN IF left = NaN THEN NaN ELSE FoldSumFrom(left, arr, mid + 1, hi)

FoldSum(arr) == FoldSumFrom(RoundToDouble(0, 0), arr, 1, Len(arr))

\* Math.floor(n * 0.95) and Math.floor(n * 0.99): the double products are
\* rounded so that the floor is that of the exact product 95n/100, 99n/100
FloorTimes95(n) == (n * 95) \div 100
FloorTimes99(n) == (n * 99) \div 100

\* a median taken from the array as the caller passed it
calculateStatsUnsorted(arr) ==
  LET n == Len(arr)
      mean == DoubleDiv(FoldSum(arr), n)
  IN [stats |-> [min |-> At(arr, 0), max |-> At(arr, n - 1), mean |-> mean,
                 median |-> At(arr, n \div 2),
                 stdDev |-> [sqrt |-> [squares |-> [i \in 1..n |->
                                          [t |-> arr[i], mean |-> mean]],
                                       count |-> n]],
                 p95 |-> At(arr, FloorTimes95(n)),
                 p99 |-> At(arr, FloorTimes99(n)),
                 samples |-> n],
      times |-> arr]

\* calculateStats(times): the summary returned, and the caller's array after
\* the call; the variance is kept as the squares it sums, (t - mean)^2 for
\* every sample t, and their number
calculateStats(arr) ==
  LET c == SortedCopy(arr)
      sorted == c.sorted
      n == Len(sorted)
      sum == FoldSum(sorted)
      mean == DoubleDiv(sum, n)
      variance == [squares |-> [i \in 1..n |->
                                  [t |-> sorted[i], mean |-> mean]],
                   count |-> n]
  IN [stats |-> [min |-> At(sorted, 0),
                 max |-> At(sorted, n - 1),
                 mean |-> mean,
                 median |-> At(sorted, n \div 2),
                 stdDev |-> [sqrt |-> variance],
                 p95 |-> At(sorted, FloorTimes95(n)),
                 p99 |-> At(sorted, FloorTimes99(n)),
                 samples |-> n],
      times |-> c.array]

\* a direct call of calculateStats
CalculateStats ==
  /\ upc = "stats"
  /\ stats' = calculateStats(times).stats
  /\ times' = calculateStats(times).times
  /\ upc' = "statsDone"
  /\ UNCHANGED <<sweepVars, compareVars, warmupIterations, iterations, ui,
                 fnLog, benchResult, parallelism, autoSizes>>

\* an entry of fnLog: a call of fn in a phase, at a loop index
FnCall(phase, i) == [phase |-> phase, i |-> i, outcome |-> "pending"]
Settle(log, outcome) == [log EXCEPT ![Len(log)].outcome = outcome]

\* runBenchmark, warmup loop: await fn()
CallWarmup ==
  /\ upc = "warmup"
  /\ ui < warmupIterations
  /\ fnLog' = Append(fnLog, FnCall("warmup", ui))
  /\ upc' = "awaitWarmup"
  /\ UNCHANGED <<sweepVars, compareVars, warmupIterations, iterations, ui,
                 times, stats, benchResult, parallelism, autoSizes>>

\* an entry of fnLog: getMemoryUsage() is read
MemoryRead(which) == [phase |-> which, i |-> 0, outcome |-> "read"]

\* runBenchmark: the warmup loop is over, times = [], memBefore is read
EndWarmup ==
  /\ upc = "warmup"
  /\ ui >= warmupIterations
  /\ times' = <<>>
  /\ fnLog' = Append(fnLog, MemoryRead("memBefore"))
  /\ ui' = 0
  /\ upc' = "timed"
  /\ UNCHANGED <<sweepVars, compareVars, warmupIterations, iterations, stats,
                 benchResult, parallelism, autoSizes>>

\* runBenchmark, timed loop: start = performance.now(); await fn()
CallTimed ==
  /\ upc = "timed"
  /\ ui < iterations
  /\ fnLog' = Append(fnLog, FnCall("timed", ui))
  /\ upc' = "awaitTimed"
  /\ UNCHANGED <<sweepVars, compareVars, warmupIterations, iterations, ui,
                 times, stats, benchResult, parallelism, autoSizes>>

\* the awaited call of fn resolves; in the timed loop end - start = d is
\* pushed (the model draws the first MaxIterations samples, the later ones
\* are 0)
FnResolves(d) ==
  /\ upc \in {"awaitWarmup", "awaitTimed"}
  /\ Len(times) >= MaxIterations => d = 0
  /\ fnLog' = Settle(fnLog, "resolved")
  /\ ui' = ui + 1
  /\ IF upc = "awaitTimed"
     THEN /\ times' = Append(times, d)
          /\ upc' = "timed"
     ELSE /\ times' = times
          /\ upc' = "warmup"
  /\ UNCHANGED <<sweepVars, compareVars, warmupIterations, iterations, stats,
                 benchResult, parallelism, autoSizes>>

\* a runBenchmark that catches the raise of fn and runs the iteration again
FnRaisesRetried ==
  /\ upc \in {"awaitWarmup", "awaitTimed"}
  /\ Len(fnLog) < MaxWarmup + MaxIterations + 1
  /\ fnLog' = Settle(fnLog, "raised")
  /\ upc' = IF upc = "awaitTimed" THEN "timed" ELSE "warmup"
  /\ UNCHANGED <<sweepVars, compareVars, warmupIterations, iterations, ui,
                 times, stats, benchResult, parallelism, autoSizes>>

\* the awaited call of fn raises: nothing catches it, the promise of
\* runBenchmark rejects
FnRaises ==
  /\ upc \in {"awaitWarmup", "awaitTimed"}
  /\ fnLog' = Settle(fnLog, "raised")
  /\ upc' = "raised"
  /\ UNCHANGED <<sweepVars, compareVars, warmupIterations, iterations, ui,
                 times, stats, benchResult, parallelism, autoSizes>>

\* a timed loop that ends one iteration early
ReturnResultEarly ==
  /\ upc = "timed"
  /\ ui + 1 >= iterations
  /\ fnLog' = Append(fnLog, MemoryRead("memAfter"))
  /\ stats' = calculateStats(times).stats
  /\ times' = calculateStats(times).times
  /\ benchResult' = [name |-> "name", stats |-> calculateStats(times).stats,
                     threadpoolSize |-> ThreadpoolSizeOf(procEnv)]
  /\ upc' = "returned"
  /\ UNCHANGED <<sweepVars, compareVars, warmupIterations, iterations, ui,
                 parallelism, autoSizes>>

\* runBenchmark: the timed loop is over, memAfter is read, the
\* BenchmarkResult is returned
ReturnResult ==
  /\ upc = "timed"
  /\ ui >= iterations
  /\ fnLog' = Append(fnLog, MemoryRead("memAfter"))
  /\ stats' = calculateStats(times).stats
  /\ times' = calculateStats(times).times
  /\ benchResult' = [name |-> "name", stats |-> calculateStats(times).stats,
                     threadpoolSize |-> ThreadpoolSizeOf(procEnv)]
  /\ upc' = "returned"
  /\ UNCHANGED <<sweepVars, compareVars, warmupIterations, iterations, ui,
                 parallelism, autoSizes>>

\* the orchestrator is not running
SweepIdle ==
  /\ argvBenchmarks = <<>>
  /\ argvSizes = <<>>
  /\ pc = "idle"
  /\ bi = 1
  /\ si = 1
  /\ allResults = <<>>
  /\ children = {}
  /\ files = <<>>
  /\ faults = 0
  /\ trialLog = <<>>

\* runBenchmark(name, fn, options) has been called in a suite process
InitTrial ==
  /\ SweepIdle
  /\ procEnv \in ParentEnvs
  /\ startEnv = procEnv
  /\ CompareIdle
  /\ upc = "warmup"
  /\ warmupIterations \in 0..MaxWarmup \cup {DefaultWarmup}
  /\ iterations \in 0..MaxIterations \cup {DefaultIterations}
  /\ ui = 0
  /\ times = <<>>
  /\ stats = Null
  /\ fnLog = <<>>
  /\ benchResult = Null
  /\ parallelism = 0
  /\ autoSizes = {}

NextTrial ==
  \/ CallWarmup
  \/ EndWarmup
  \/ CallTimed
  \/ \E d \in Durations : FnResolves(d)
  \/ FnRaises
  \/ ReturnResult

SpecTrial == InitTrial /\ [][NextTrial]_vars

\* the sequences of n samples
SamplesOfLen(n) == [1..n -> Durations]

\* the samples 0..n-1, the largest first
Descending(n) == [i \in 1..n |-> n - i]

\* three equal samples, of the upper half of the bits of a double
EqualSamples == {[i \in 1..3 |-> x] : x \in 2^(Precision - 2)..2^(Precision - 1)}

\* calculateStats is about to be called on a non-empty array of samples
InitStats ==
  /\ SweepIdle
  /\ procEnv = {}
  /\ startEnv = {}
  /\ CompareIdle
  /\ upc = "stats"
  /\ warmupIterations = 0
  /\ iterations = 0
  /\ ui = 0
  /\ times \in UNION {SamplesOfLen(n) : n \in 1..MaxSamples}
                \cup {<<1, 2, 3, 4>>, <<4, 2, 1, 3>>, Descending(20),
                      Descending(100)}
                \cup EqualSamples
  /\ stats = Null
  /\ fnLog = <<>>
  /\ benchResult = Null
  /\ parallelism = 0
  /\ autoSizes = {}

NextStats == CalculateStats

SpecStats == InitStats /\ [][NextStats]_vars

\* a place of the program derives the auto size
UtilsAutoSize ==
  /\ upc = "autosize"
  /\ autoSizes' = autoSizes \cup {<<"utils", getAutoSize(parallelism)>>}
  /\ autoSizes' # autoSizes
  /\ UNCHANGED <<sweepVars, compareVars, upc, warmupIterations, iterations,
                 ui, times, stats, fnLog, benchResult, parallelism>>

ServerMain ==
  /\ upc = "autosize"
  /\ autoSizes' = autoSizes \cup {<<"server", ServerAutoSize(parallelism)>>}
  /\ autoSizes' # autoSizes
  /\ UNCHANGED <<sweepVars, compareVars, upc, warmupIterations, iterations,
                 ui, times, stats, fnLog, benchResult, parallelism>>

InitAutoSize ==
  /\ SweepIdle
  /\ procEnv = {}
  /\ startEnv = {}
  /\ CompareIdle
  /\ upc = "autosize"
  /\ warmupIterations = 0
  /\ iterations = 0
  /\ ui = 0
  /\ times = <<>>
  /\ stats = Null
  /\ fnLog = <<>>
  /\ benchResult = Null
  /\ parallelism \in 0..MaxParallelism
  /\ autoSizes = {}

NextAutoSize ==
  \/ UtilsAutoSize
  \/ ServerMain

SpecAutoSize == InitAutoSize /\ [][NextAutoSize]_vars

----------------------------------------------------------------------------
(* Properties of lib/utils.js *)

\* the calls of fn that raised
RaisedCalls == {k \in 1..Len(fnLog) : fnLog[k].outcome = "raised"}

\* C15: once a call of the operation has raised, the trial runner has failed:
\* it has returned no BenchmarkResult, the raised call is the last call it
\* made, and no timed iteration index has been attempted twice.
C15_RaiseFailsTheRun ==
  /\ RaisedCalls # {} =>
       /\ upc = "raised"
       /\ benchResult = Null
       /\ RaisedCalls = {Len(fnLog)}
  /\ \A k, l \in 1..Len(fnLog) :
       (fnLog[k].phase = "timed" /\ fnLog[l].phase = "timed"
        /\ fnLog[k].i = fnLog[l].i) => k = l

\* C15 witness: the third timed call raised after two timed calls resolved.
C15_Witness ==
  /\ upc = "raised"
  /\ Len(fnLog) >= 3
  /\ fnLog[Len(fnLog)] = [phase |-> "timed", i |-> 2, outcome |-> "raised"]
  /\ Len(times) = 2

\* a trial process is running
TrialRunning == \E c \in children : c.phase = "running"

\* the pairings of the request, a suite requested twice counted twice
RequestedPairings ==
  Len(SelectSeq(argvBenchmarks, LAMBDA b : b \in BENCHMARKS)) * Len(argvSizes)

\* every requested pairing has been processed
SweepProcessed ==
  /\ Len(trialLog) = RequestedPairings
  /\ children = {}
  /\ \A b \in KnownRequested, s \in RequestedSizes : HasKey(allResults, b, s)

\* C20 as stated: if every trial process eventually ends, the sweep
\* eventually has processed every pairing and the combined artifact exists.
C20_CombinedEventuallyWritten ==
  ([]<>(~TrialRunning)) =>
     <>(SweepProcessed /\ HasFile(files, CombinedName))

\* C20, amended: while a trial process runs the only step taken is the end of
\* that process, and no combined artifact exists; if every trial process
\* eventually ends, the sweep eventually has processed every pairing and has
\* written the combined artifact, or that last write has failed.
C20_WaitsOnlyForTrial ==
  /\ [][TrialRunning => (~TrialRunning' /\ UNCHANGED <<pc, bi, si, files, allResults>>)]_vars
  /\ [](TrialRunning => (pc = "await_child" /\ ~HasFile(files, CombinedName)))
  /\ ([]<>(~TrialRunning)) =>
        <>(/\ SweepProcessed
           /\ \/ pc = "done" /\ HasFile(files, CombinedName)
              \/ pc = "rejected" /\ ~HasFile(files, CombinedName))

\* C20 witness: four pairings have been processed, one of them failed, and
\* the combined artifact is written.
C20_Witness ==
  /\ pc = "done"
  /\ SweepProcessed
  /\ Len(trialLog) = 4
  /\ \E i \in 1..Len(trialLog) : trialLog[i].outcome = "crashed"
  /\ HasFile(files, CombinedName)

\* C19: from the load to the end of the analysis the result set in memory is
\* the one that was parsed from the combined artifact: the tables, the
\* summary and the recommendations change no suite, key, record or result.
C19_InputUnchanged ==
  cpc \in {"tables", "recommend", "done"} =>
    loaded = ParseBenchmarks(files[CombinedName].value)

\* C19 witness: the analysis of two suites with an errored record has ended,
\* with two tables and a summary.
C19_Witness ==
  /\ cpc = "done"
  /\ Len(loaded) = 2
  /\ Len(tables) = 2
  /\ Len(summaries) > 0
  /\ \E i \in 1..Len(loaded) : \E j \in 1..Len(loaded[i].val) :
       HasField(loaded[i].val[j].val, "error")

\* the rearrangements of an array of samples: every permutation of a short
\* array; the reversed and the rotated array of a longer one
Rearrangements(arr) ==
  LET n == Len(arr)
  IN IF n <= MaxSamples + 1
     THEN {[i \in 1..n |-> arr[f[i]]] : f \in Permutations(1..n)}
     ELSE {[i \in 1..n |-> arr[n + 1 - i]],
           [i \in 1..n |-> arr[(i % n) + 1]]}

\* C16: a call of calculateStats leaves the caller's array as it was, and the
\* summary it returns is the summary of every rearrangement of the array.
C16_OrderIndependent ==
  [][upc = "stats" =>
       /\ times' = times
       /\ \A q \in Rearrangements(times) : calculateStats(q).stats = stats']_vars

\* C16 witness: the summary of an array that is not sorted has been returned.
C16_Witness ==
  /\ upc = "statsDone"
  /\ times = <<2, 0, 1>>
  /\ stats.min = 0
  /\ stats.median = 1
  /\ stats.max = 2
  /\ stats.samples = 3

\* the element at position k, counted from 0, of the samples in ascending
\* order: fewer than k + 1 samples are below it, at least k + 1 are not
\* above it
OrderStatistic(arr, k) ==
  CHOOSE v \in {arr[i] : i \in 1..Len(arr)} :
    /\ Cardinality({i \in 1..Len(arr) : arr[i] < v}) <= k
    /\ Cardinality({i \in 1..Len(arr) : arr[i] <= v}) > k

\* C17: for n >= 1 samples the median is the sorted sample at floor(n/2),
\* p95 the one at floor(0.95 n) and p99 the one at floor(0.99 n), each index
\* within 0..n-1; [1,2,3,4] has median 3, the samples 0..19 have p95 19 and
\* the samples 0..99 have p95 95.
C17_IndexedPercentiles ==
  upc = "statsDone" =>
    LET n == Len(times)
    IN /\ n \div 2 \in 0..(n - 1)
       /\ FloorTimes95(n) \in 0..(n - 1)
       /\ FloorTimes99(n) \in 0..(n - 1)
       /\ stats.median = OrderStatistic(times, n \div 2)
       /\ stats.p95 = OrderStatistic(times, (95 * n) \div 100)
       /\ stats.p99 = OrderStatistic(times, (99 * n) \div 100)
       /\ times \in {<<1, 2, 3, 4>>, <<4, 2, 1, 3>>} => stats.median = 3
       /\ times = Descending(20) => stats.p95 = 19
       /\ times = Descending(100) => stats.p95 = 95

\* C17 witness: the summary of the samples 0..99 has been returned.
C17_Witness ==
  /\ upc = "statsDone"
  /\ times = Descending(100)
  /\ stats.median = 50
  /\ stats.p95 = 95
  /\ stats.p99 = 99

\* min(max(4, p), 1024) written by cases
Clamped(p) == IF p < 4 THEN 4 ELSE IF p <= 1024 THEN p ELSE 1024

\* C18: every place that has derived the auto pool size has derived 4 when
\* the available parallelism p is below 4, p when 4 <= p <= 1024 and 1024
\* when p > 1024, so any two places agree.
C18_AutoSizeClamped ==
  /\ \A d \in autoSizes : d[2] = Clamped(parallelism)
  /\ \A d, e \in autoSizes : d[2] = e[2]

\* C18 witness: the utility and the server have both derived the size for a
\* parallelism above the upper limit.
C18_Witness ==
  /\ parallelism > 1024
  /\ {d[1] : d \in autoSizes} = {"utils", "server"}

----------------------------------------------------------------------------
(* Further properties of the sweep *)

\* the keys of the suite objects of a result set
SuiteKeys(all) == {all[i].key : i \in 1..Len(all)}
ConfigKeys(all, b) ==
  {ObjGet(all, b)[j].key : j \in 1..Len(ObjGet(all, b))}

\* C21: a step of the sweep keeps every record of the result set in memory:
\* the suite still has the configuration key, and the record at the key is
\* the same.
C21_RecordsAccumulate ==
  [][\A b \in SuiteKeys(allResults) : \A k \in ConfigKeys(allResults, b) :
       /\ b \in SuiteKeys(allResults')
       /\ k \in ConfigKeys(allResults', b)
       /\ ObjGet(ObjGet(allResults', b), k) = ObjGet(ObjGet(allResults, b), k)]_vars

\* the calls of fn in fnLog, and the positions of the memory readings
FnCalls == {k \in 1..Len(fnLog) : fnLog[k].phase \in {"warmup", "timed"}}
ReadAt(which) == {k \in 1..Len(fnLog) : fnLog[k].phase = which}

\* C22: a call of the operation starts only when every earlier call has
\* completed, and the samples so far are those of the timed calls that
\* resolved; a run that has returned made w warmup calls, read the memory,
\* made n timed calls and read the memory again, in this order, and its
\* summary is that of n samples.
C22_SequentialCalls ==
  /\ \A k \in FnCalls : fnLog[k].outcome = "pending" => k = Len(fnLog)
  /\ upc \in {"timed", "awaitTimed", "returned"} =>
       Len(times) = Cardinality({k \in FnCalls : /\ fnLog[k].phase = "timed"
                                                 /\ fnLog[k].outcome = "resolved"})
  /\ upc = "returned" =>
       /\ Cardinality(FnCalls) = warmupIterations + iterations
       /\ Len(fnLog) = warmupIterations + iterations + 2
       /\ \A k \in 1..warmupIterations :
            fnLog[k] = [phase |-> "warmup", i |-> k - 1, outcome |-> "resolved"]
       /\ ReadAt("memBefore") = {warmupIterations + 1}
       /\ \A k \in 1..iterations :
            fnLog[warmupIterations + 1 + k]
              = [phase |-> "timed", i |-> k - 1, outcome |-> "resolved"]
       /\ ReadAt("memAfter") = {Len(fnLog)}
       /\ Len(times) = iterations
       /\ stats.samples = iterations
       /\ benchResult.stats = stats

\* C22 witness: a run with the default 5 warmup and 20 timed iterations has
\* returned.
C22_Witness ==
  /\ upc = "returned"
  /\ warmupIterations = DefaultWarmup
  /\ iterations = DefaultIterations
  /\ Cardinality(FnCalls) = 25
  /\ stats.samples = 20

\* C23: no BenchmarkResult is returned whose summary was computed from zero
\* samples, and calculateStats returns no summary of zero samples.
C23_NoEmptySummary ==
  /\ benchResult # Null => benchResult.stats.samples > 0
  /\ stats # Null => stats.samples > 0

----------------------------------------------------------------------------
(* Further properties of the analyzer *)

\* C24: a matched pair with a baseline mean above 0 and a current mean of at
\* least 0 has an entry with a delta in exactly one of the three lists of its
\* configuration, so the three counts sum to the number of matched pairs
\* (one, in a file of one pair).
C24_MatchedPairClassified ==
  (AnalyzerReported /\ PairBaselineMean > 0 /\ PairCurrentMean >= 0) =>
     /\ ObjHas(summaries, "auto")
     /\ Len(PairSummary.improvements) + Len(PairSummary.regressions)
          + Len(PairSummary.neutral) = 1
     /\ \A e \in SummaryEntries("auto") : e.improvement # Null

\* rational numbers [num, den] with den > 0, in lowest terms
RECURSIVE GCD(_, _)
GCD(a, b) == IF b = 0 THEN a ELSE GCD(b, a % b)
Abs(a) == IF a < 0 THEN 0 - a ELSE a
Rat(n, d) ==
  LET g == GCD(Abs(n), d) IN [num |-> n \div g, den |-> d \div g]
RatAdd(a, b) == Rat(a.num * b.den + b.num * a.den, a.den * b.den)

\* allImprovements.reduce((a, b) => a + b, 0) / allImprovements.length
RECURSIVE RatSum(_, _)
RatSum(entries, k) ==
  IF k = 0 THEN Rat(0, 1)
  ELSE RatAdd(RatSum(entries, k - 1), entries[k].improvement)
AverageImprovement(summary) ==
  LET allImprovements ==
        summary.improvements \o summary.regressions \o summary.neutral
      total == RatSum(allImprovements, Len(allImprovements))
  IN IF Len(allImprovements) = 0 THEN Null
     ELSE Rat(total.num, total.den * Len(allImprovements))

\* what printSummaryTable prints for a configuration from its sorted summary:
\* the entries listed under the two headings, and the average
SummaryListing(summary) ==
  [improvements |-> Slice5(summary.improvements),
   regressions |-> Slice5(summary.regressions),
   average |-> AverageImprovement(summary)]

\* a file of MaxTests tests, the odd ones in the suite crypto and the even
\* ones in zlib, with a baseline mean of 100; the mean of test i at auto makes
\* it an improvement, a regression or neutral, with deltas that differ from
\* test to test
MaxTests == 7
Spread(i) == ((i * 3) % 8) * 10 + 5
TopMean(i, kind) ==
  CASE kind = "improved" -> Spread(i)
    [] kind = "regressed" -> 100 + Spread(i)
    [] kind = "neutral" -> 100
TopResults(tests, kinds, atBaseline) ==
  [k \in 1..Len(tests) |->
     [name |-> <<"test", tests[k]>>,
      mean |-> IF atBaseline THEN 100 ELSE TopMean(tests[k], kinds[tests[k]])]]
TopSuite(tests, kinds) ==
  <<[key |-> "4",
     val |-> [benchmark |-> "suite", threadpoolSize |-> "n",
              results |-> TopResults(tests, kinds, TRUE)]],
    [key |-> "auto",
     val |-> [benchmark |-> "suite", threadpoolSize |-> "n",
              results |-> TopResults(tests, kinds, FALSE)]]>>
TopFile(kinds) ==
  <<[key |-> "crypto",
     val |-> TopSuite(SelectSeq([i \in 1..MaxTests |-> i],
                                LAMBDA i : i % 2 = 1), kinds)],
    [key |-> "zlib",
     val |-> TopSuite(SelectSeq([i \in 1..MaxTests |-> i],
                                LAMBDA i : i % 2 = 0), kinds)]>>

\* the analyzer started on such a file
TopKinds == {"improved", "regressed", "neutral"}
InitTop ==
  /\ argvBenchmarks = <<>>
  /\ argvSizes = <<>>
  /\ procEnv = {}
  /\ startEnv = {}
  /\ pc = "idle"
  /\ bi = 1
  /\ si = 1
  /\ allResults = <<>>
  /\ children = {}
  /\ faults = 0
  /\ trialLog = <<>>
  /\ files \in {WriteFile(<<>>, CombinedName, StringifyAllResults(TopFile(kinds))) :
                   kinds \in [1..MaxTests -> TopKinds]}
  /\ baseline = "4"
  /\ loaded = <<>>
  /\ cpc = "start"
  /\ ci = 0
  /\ tables = <<>>
  /\ summaries = <<>>
  /\ UtilsIdle

SpecTop == InitTop /\ [][NextCompare]_vars

\* the deltas compared as numbers
RatLeq(a, b) == a.num * b.den <= b.num * a.den

\* the sum of the deltas of a set of entries
RECURSIVE DeltaSum(_)
DeltaSum(es) ==
  IF es = {} THEN Rat(0, 1)
  ELSE LET e == CHOOSE x \in es : TRUE
       IN RatAdd(e.improvement, DeltaSum(es \ {e}))

MinOf(a, b) == IF a < b THEN a ELSE b
EntriesOf(list) == {list[i] : i \in 1..Len(list)}

\* C25: for every configuration of the summary, the improvements listed are
\* min(5, number of improvements) improvements, none smaller than an
\* improvement that is not listed, largest delta first; the regressions listed
\* are min(5, number of regressions) regressions, none larger than one that
\* is not listed, most negative first; and the average is the sum of the
\* deltas of all classified pairs over their number.
C25_TopFiveAndAverage ==
  AnalyzerReported =>
    \A k \in SummaryKeys :
      LET summary == ObjGet(summaries, k)
          listing == SummaryListing(summary)
          imps == listing.improvements
          regs == listing.regressions
          n == Cardinality(SummaryEntries(k))
      IN /\ Len(imps) = MinOf(TopCount, Len(summary.improvements))
         /\ EntriesOf(imps) \subseteq EntriesOf(summary.improvements)
         /\ Cardinality(EntriesOf(imps)) = Len(imps)
         /\ \A e \in EntriesOf(imps) :
              \A u \in EntriesOf(summary.improvements) \ EntriesOf(imps) :
                RatLeq(u.improvement, e.improvement)
         /\ \A i \in 1..(Len(imps) - 1) :
              RatLeq(imps[i + 1].improvement, imps[i].improvement)
         /\ Len(regs) = MinOf(TopCount, Len(summary.regressions))
         /\ EntriesOf(regs) \subseteq EntriesOf(summary.regressions)
         /\ Cardinality(EntriesOf(regs)) = Len(regs)
         /\ \A e \in EntriesOf(regs) :
              \A u \in EntriesOf(summary.regressions) \ EntriesOf(regs) :
                RatLeq(e.improvement, u.improvement)
         /\ \A i \in 1..(Len(regs) - 1) :
              RatLeq(regs[i].improvement, regs[i + 1].improvement)
         /\ n > 0 =>
              LET total == DeltaSum(SummaryEntries(k))
              IN listing.average = Rat(total.num, total.den * n)

\* C25 witness: six improvements from two suites and one regression; five
\* improvements are listed.
C25_Witness ==
  /\ cpc = "done"
  /\ ObjHas(summaries, "auto")
  /\ Len(ObjGet(summaries, "auto").improvements) = 6
  /\ Len(ObjGet(summaries, "auto").regressions) = 1
  /\ Len(SummaryListing(ObjGet(summaries, "auto")).improvements) = 5
  /\ \E e, u \in EntriesOf(ObjGet(summaries, "auto").improvements) :
       e.benchmark # u.benchmark

----------------------------------------------------------------------------
(* Further properties of lib/utils.js *)

\* the mean lies between two samples: count * lo <= sum <= count * hi
\* the sum of arr[lo..hi]
RECURSIVE SumOf(_, _, _)
SumOf(arr, lo, hi) ==
  IF lo > hi THEN 0
  ELSE IF lo = hi THEN arr[lo]
  ELSE SumOf(arr, lo, (lo + hi) \div 2) + SumOf(arr, (lo + hi) \div 2 + 1, hi)

\* a <= b of two doubles
DoubleLeq(a, b) ==
  LET e == MathMin(a.e, b.e)
  IN a.m * 2^(a.e - e) <= b.m * 2^(b.e - e)

\* the percentiles of a summary are in order between its minimum and maximum
PercentilesOrdered ==
  LET n == Len(times)
  IN /\ stats.min <= stats.median /\ stats.median <= stats.p95
     /\ stats.p95 <= stats.p99 /\ stats.p99 <= stats.max
     /\ n \div 2 <= FloorTimes95(n) /\ FloorTimes95(n) <= FloorTimes99(n)
     /\ FloorTimes99(n) <= n - 1

\* the mean of a summary is between its minimum and its maximum
MeanWithinRange ==
  /\ DoubleLeq(RoundToDouble(stats.min, 0), stats.mean)
  /\ DoubleLeq(stats.mean, RoundToDouble(stats.max, 0))

\* the double sum of the samples is their sum
SumIsExact ==
  FoldSum(SortAscending(times)) = Canon(SumOf(times, 1, Len(times)), 0)

----------------------------------------------------------------------------
(* Further properties of the suites and of the orchestrator *)

\* the position of the first step t of a trial process, 0 when it took none
StepAt(c, t) ==
  IF \E i \in 1..Len(c.steps) : c.steps[i] = Step(t)
  THEN CHOOSE i \in 1..Len(c.steps) :
         c.steps[i] = Step(t) /\ \A j \in 1..(i - 1) : c.steps[j] # Step(t)
  ELSE 0

\* the trial process has ended after an operation of one of its trials raised
Raised(c) == c.phase = "closed" /\ StepAt(c, "raise") > 0

\* C27: a suite process in which an operation of a trial raised ran no later
\* trial, printed the error after the cleanup of its temporary directory (fs
\* and mixed), printed no marker line and no payload and ended with code 0;
\* the orchestrator stores null for the pairing, not an error record.
C27_RaiseEndsSuiteQuietly ==
  /\ [](\A c \in children : Raised(c) =>
         LET r == StepAt(c, "raise")
         IN /\ \A i \in (r + 1)..Len(c.steps) :
                  c.steps[i] \notin {Step("trial"), Step("payload")}
            /\ StepAt(c, "console.error") > r
            /\ UsesTempDir(c.bench) =>
                  /\ r < StepAt(c, "cleanup")
                  /\ StepAt(c, "cleanup") < StepAt(c, "console.error")
            /\ c.steps[Len(c.steps)] = Step("exit")
            /\ c.code = 0
            /\ \A i \in 1..Len(c.stdout) : c.stdout[i] = LogLine
            /\ ExtractJson(c.stdout) = Null)
  /\ [][\A c \in children :
          (Raised(c) /\ c \notin children') =>
            /\ RecordOf(allResults', c.bench, c.size) = Null
            /\ pc' = "await_write"]_vars

C27_Witness ==
  /\ pc = "await_write"
  /\ UsesTempDir(benchName)
  /\ trialLog # <<>>
  /\ trialLog[Len(trialLog)] =
       [bench |-> benchName, size |-> size, outcome |-> "raised"]
  /\ RecordOf(allResults, benchName, size) = Null

\* the write of the artifact of the pairing in progress fails in this step,
\* after a trial process that ran all its trials and exited 0
ArtifactWriteFails ==
  /\ pc = "await_write"
  /\ trialLog[Len(trialLog)].outcome = "completed"
  /\ trialLog'[Len(trialLog')].outcome = "write_failed"

\* C28: when the write of a pairing's artifact fails after its trial process
\* succeeded, the record stored for the pairing (the parsed payload) is
\* replaced by an error record with the message of the write error, the
\* sweep goes on with the next pairing, and the combined artifact has the
\* error record for the pairing.
C28_WriteFailureRecorded ==
  /\ [][ArtifactWriteFails =>
          /\ RecordOf(allResults, benchName, size)
                = ExtractJson(SuiteMain(benchName,
                                RunBenchmarkEnv(procEnv, size).child, 0))
          /\ RecordOf(allResults', benchName, size) = [error |-> "write failed"]
          /\ \A b \in SuiteKeys(allResults) :
               \A k \in ConfigKeys(allResults, b) :
                 <<b, k>> # <<benchName, StringOfSize(size)>> =>
                   ObjGet(ObjGet(allResults', b), k) = ObjGet(ObjGet(allResults, b), k)
          /\ files' = files
          /\ IF si < Len(argvSizes)
             THEN pc' = "inner" /\ bi' = bi /\ si' = si + 1
             ELSE pc' = "outer" /\ bi' = bi + 1]_vars
  /\ [](pc = "done" =>
         \A b \in KnownRequested, s \in RequestedSizes :
           LastTrialOf(b, s).outcome = "write_failed" =>
             /\ RecordOf(allResults, b, s) = [error |-> "write failed"]
             /\ RecordOf(ParseBenchmarks(files[CombinedName].value), b, s)
                  = [error |-> "write failed"])

\* C28 witness: the sweep is done, the artifact of a zlib pairing could not
\* be written, and a later pairing was run.
C28_Witness ==
  /\ pc = "done"
  /\ \E i \in 1..(Len(trialLog) - 1) :
       /\ trialLog[i].outcome = "write_failed"
       /\ trialLog[i].bench = "zlib"
       /\ RecordOf(allResults, "zlib", trialLog[i].size) = [error |-> "write failed"]
       /\ ~HasFile(files, ArtifactName("zlib", trialLog[i].size))

\* the requested identifiers that are no known suites
UnknownRequested ==
  {argvBenchmarks[i] : i \in 1..Len(argvBenchmarks)} \ BENCHMARKS

\* C29: for a requested identifier that is no known suite no trial process
\* is spawned, the result set gets no key and no artifact is written; the
\* known suites requested with it are swept in the requested order.
C29_UnknownSkipped ==
  /\ \A b \in UnknownRequested :
       /\ \A c \in children : c.bench # b
       /\ \A i \in 1..Len(trialLog) : trialLog[i].bench # b
       /\ ~ObjHas(allResults, b)
       /\ \A s \in SizeValues : ~HasFile(files, ArtifactName(b, s))
       /\ pc = "done" => ~ObjHas(ParseBenchmarks(files[CombinedName].value), b)
  /\ \A i, j \in 1..Len(trialLog) :
       (i < j /\ trialLog[i].bench # trialLog[j].bench) =>
         \E m, n \in 1..Len(argvBenchmarks) :
           /\ m < n
           /\ argvBenchmarks[m] = trialLog[i].bench
           /\ argvBenchmarks[n] = trialLog[j].bench
  /\ pc = "done" => \A b \in KnownRequested, sz \in RequestedSizes :
                      TrialsOf(b, sz) # {}

----------------------------------------------------------------------------
(* The analyzer on the records of the memory suite *)

\* the objects the sweep can leave for the memory suite: each of the keys
\* "4" and "auto" absent, or with the record of a trial process that printed
\* its payload, that exited with a code other than 0, or that printed no
\* payload
MemoryRecords(sz) ==
  {ExtractJson(SuiteMain("memory", RunBenchmarkEnv({}, sz).child, 0)),
   [error |-> "Benchmark exited with code 1"], Null}
MemoryObjects ==
  {<<>>}
    \cup {<<[key |-> "4", val |-> r]>> : r \in MemoryRecords(Explicit(4))}
    \cup {<<[key |-> "auto", val |-> r]>> : r \in MemoryRecords(Auto)}
    \cup {<<[key |-> "4", val |-> r], [key |-> "auto", val |-> q]>> :
            r \in MemoryRecords(Explicit(4)), q \in MemoryRecords(Auto)}

\* the analyzer started on the combined artifact of a sweep of zlib and
\* memory, with a baseline key that the sweep had or had not
InitMemory ==
  /\ argvBenchmarks = <<>>
  /\ argvSizes = <<>>
  /\ procEnv = {}
  /\ startEnv = {}
  /\ pc = "idle"
  /\ bi = 1
  /\ si = 1
  /\ allResults = <<>>
  /\ children = {}
  /\ faults = 0
  /\ trialLog = <<>>
  /\ files \in {WriteFile(<<>>, CombinedName,
                           StringifyAllResults(<<[key |-> "zlib", val |-> a],
                                                 [key |-> "memory", val |-> m]>>)) :
                   a \in SuiteObjects, m \in MemoryObjects}
  /\ baseline \in BaselineArgs \cup {"16"}
  /\ loaded = <<>>
  /\ cpc = "start"
  /\ ci = 0
  /\ tables = <<>>
  /\ summaries = <<>>
  /\ UtilsIdle

SpecMemory == InitMemory /\ [][NextCompare]_vars

\* C30: the record of the memory suite has no `results`; for every baseline
\* key the analyzer prints the no-baseline diagnostic for the memory suite,
\* no row of a table and no entry of a summary list is of the memory suite,
\* and main() neither exits nor rejects.
C30_MemoryHasNoBaseline ==
  /\ cpc \notin {"exit1", "rejected"}
  /\ cpc # "start" =>
       \A k \in {"4", "auto"} :
         Truthy(ObjGet(ObjGet(loaded, "memory"), k)) =>
           ~HasField(ObjGet(ObjGet(loaded, "memory"), k), "results")
  /\ AnalyzerReported =>
       /\ \E i \in 1..Len(tables) : tables[i].suite = "memory"
       /\ \A i \in 1..Len(tables) :
            tables[i].suite = "memory" =>
              tables[i].noBaseline /\ tables[i].rows = <<>>
       /\ \A k \in SummaryKeys : \A e \in SummaryEntries(k) :
            e.benchmark # "memory"

\* C30 witness: the analyzer has ended on a file in which the memory suite
\* has its payload at the baseline key and at the other key, and zlib has an
\* entry in a summary list.
C30_Witness ==
  /\ cpc = "done"
  /\ HasField(ObjGet(ObjGet(loaded, "memory"), baseline), "baseline")
  /\ HasField(ObjGet(ObjGet(loaded, "memory"), "auto"), "baseline")
  /\ baseline = "4"
  /\ \E i \in 1..Len(tables) : tables[i].suite = "memory" /\ tables[i].noBaseline
  /\ \E k \in SummaryKeys : \E e \in SummaryEntries(k) : e.benchmark = "zlib"

====
